---- MODULE Spec2Model ----
(***************************************************************************)
(* Model of the self-reflective extraction loop of lkgb:                   *)
(*   - build_dynamic_model / DynamicEventGraph (src/lkgb/parser/models.py) *)
(*   - EventGraph.graph                        (src/lkgb/parser/models.py) *)
(*   - Parser.parse                            (src/lkgb/parser/parser.py) *)
(*   - ParserReport                            (src/lkgb/reports.py)       *)
(*                                                                         *)
(* Optional values (Python None / a missing dict key) are sequences of     *)
(* length 0 or 1, so that values of different shapes are never compared.   *)
(***************************************************************************)
EXTENDS Integers, Sequences, FiniteSets, TLC

VARIABLES
    self_reflection_steps, \* Parser.self_reflection_steps
    pc,                    \* position of the parse call
    current_step,          \* loop variable of Parser.parse
    examples,              \* demonstrations fetched by _get_examples
    corrections,           \* the correction transcript of the call
    invocations,           \* log of chain.invoke calls: inputs and result
    report,                \* the ParserReport of the call
    exception,             \* the exception that left parse, if any
    uuid,                  \* number of uuid4 draws so far
    eg,                    \* an EventGraph instance given to graph()
    output_graph,          \* the GraphDocument built from eg
    gpc,                   \* position of the assembly or validation of eg
    ontology,              \* the ontology snapshot held by the store
    supports_structured_output, \* whether the parser model supports it
    schema,                \* the dynamic model compiled into the chain
    validation,            \* the errors found by validating eg
    calls,                 \* number of parse calls started on the Parser
    searches,              \* number of similarity searches made so far
    frames,                \* the locals of each parse call running on the Parser
    frame_log,             \* the chain invocations made by those calls
    frame_calls,           \* number of those calls started so far
    batch,                 \* the batch driver: position, reports, graphs passed to the store
    lookup,                \* one call of fetch_ip_address_info: HTTP outcome and result
    db,                    \* the Neo4j store: nodes, indexes, constraints
    config,                \* the Config of the running process: the two file hashes
    tp                     \* the template parser: its vector store, history and call

vars == <<self_reflection_steps, pc, current_step, examples, corrections,
          invocations, report, exception, uuid, eg, output_graph, gpc,
          ontology, supports_structured_output, schema, validation, calls, searches,
          frames, frame_log, frame_calls, batch, lookup, db, config, tp>>

envVars == <<ontology, supports_structured_output, schema, validation>>

callVars == <<calls, searches>>

frameVars == <<frames, frame_log, frame_calls>>

extVars == <<batch, lookup, db>>

runVars == <<config, tp>>

parseVars == <<self_reflection_steps, pc, current_step, examples,
               corrections, invocations, report, exception>>

(***************************************************************************)
(* Bounds                                                                  *)
(***************************************************************************)
MaxSteps == 2
MaxNodes == 2
MaxRels == 1
MaxCalls == 1
MaxFrameCalls == 2

(***************************************************************************)
(* Generic helpers                                                         *)
(***************************************************************************)
None == <<>>

Some(x) == <<x>>

Range(s) == {s[i] : i \in 1..Len(s)}

SeqsUpTo(S, n) == UNION {[1..k -> S] : k \in 0..n}

IsPrefix(s, t) == Len(s) <= Len(t) /\ SubSeq(t, 1, Len(s)) = s

RECURSIVE Flatten(_)
Flatten(ss) == IF ss = <<>> THEN <<>> ELSE Head(ss) \o Flatten(Tail(ss))

(***************************************************************************)
(* The ontology snapshot returned by store.ontology.graph(): the node      *)
(* types with their property keys and the relationships (triples).         *)
(***************************************************************************)
OntologyNodeProperties ==
    [Event |-> {"eventMessage"}, User |-> {"userName"}, Address |-> {"ip"}]

OntologyRelationships ==
    {[source |-> "Event", type |-> "hasUser", target |-> "User"]}

\* The GraphDocument of an ontology: nodes are classes with their property
\* keys, relationships are (source class, type, target class).
LogOntology ==
    [nodes |-> {[type |-> t, properties |-> OntologyNodeProperties[t]] :
                   t \in DOMAIN OntologyNodeProperties},
     relationships |-> OntologyRelationships]

\* the same ontology extended with a Host class
HostOntology ==
    [nodes |-> LogOntology.nodes \cup {[type |-> "Host", properties |-> {"hostName"}]},
     relationships |-> OntologyRelationships
                       \cup {[source |-> "Event", type |-> "hasHost", target |-> "Host"]}]

\* a store whose ontology has no class
EmptyOntology == [nodes |-> {}, relationships |-> {}]

Ontologies == {LogOntology, HostOntology, EmptyOntology}

(***************************************************************************)
(* build_dynamic_model: the closed sets compiled from the ontology.  It    *)
(* has no guard: an ontology without classes compiles to empty enums.      *)
(* The per-node property lists are kept as (node type, key) pairs.         *)
(***************************************************************************)
build_dynamic_modelNoUri(ont) ==
    [valid_node_types |-> {n.type : n \in ont.nodes},
     valid_properties_per_node |->
        UNION {{<<n.type, k>> : k \in n.properties} : n \in ont.nodes},
     valid_relationship_types |-> {r.type : r \in ont.relationships},
     valid_triples |-> {<<r.source, r.type, r.target>> : r \in ont.relationships}]

build_dynamic_model(ont) ==
    [valid_node_types |-> {n.type : n \in ont.nodes},
     valid_properties_per_node |->
        UNION {{<<n.type, k>> : k \in n.properties \cup {"uri"}} : n \in ont.nodes},
     valid_relationship_types |-> {r.type : r \in ont.relationships},
     valid_triples |-> {<<r.source, r.type, r.target>> : r \in ont.relationships}]

\* The sets closed over by the classes of the compiled model.
valid_node_types == schema[1].valid_node_types

valid_properties_per_node ==
    [t \in valid_node_types |->
        {pair[2] : pair \in {q \in schema[1].valid_properties_per_node : q[1] = t}}]

valid_properties == UNION {valid_properties_per_node[t] : t \in valid_node_types}

valid_relationship_types == schema[1].valid_relationship_types

valid_triples == schema[1].valid_triples

(***************************************************************************)
(* Field validation of the dynamic model.  An error is a record with the   *)
(* location (a path), the message and the offending input, as pydantic's   *)
(* ValidationError.errors() reports them.  Indices are 0-based.            *)
(***************************************************************************)
Err(loc, msg, input) == [loc |-> loc, msg |-> msg, input |-> input]

\* the offending input of an error: a field value, or the whole arguments
FieldInput(v) == [field |-> Some(v), data |-> None]

DataInput(g) == [field |-> None, data |-> Some(g)]

PropertyErrors(i, props) ==
    Flatten([j \in 1..Len(props) |->
        IF props[j].type \in valid_properties THEN <<>>
        ELSE <<Err(<<"nodes", ToString(i - 1), "properties", ToString(j - 1), "type">>,
                   "enum", FieldInput(props[j].type))>>])

NodeErrorsNoTypeCheck(nodes) ==
    Flatten([i \in 1..Len(nodes) |->
        IF nodes[i].properties = None THEN <<>>
        ELSE PropertyErrors(i, nodes[i].properties[1])])

NodeErrors(nodes) ==
    Flatten([i \in 1..Len(nodes) |->
        (IF nodes[i].type \in valid_node_types THEN <<>>
         ELSE <<Err(<<"nodes", ToString(i - 1), "type">>, "enum", FieldInput(nodes[i].type))>>)
        \o (IF nodes[i].properties = None THEN <<>>
            ELSE PropertyErrors(i, nodes[i].properties[1]))])

RelationshipErrors(rels) ==
    Flatten([i \in 1..Len(rels) |->
        IF rels[i].type \in valid_relationship_types THEN <<>>
        ELSE <<Err(<<"relationships", ToString(i - 1), "type">>, "enum", FieldInput(rels[i].type))>>])

(***************************************************************************)
(* DynamicEventGraph.validate_relationships, the mode="after" validator.   *)
(* Python parses  A | B - node_ids  as  A | (B - node_ids).                *)
(***************************************************************************)
missing_nodesBothSides(g) ==
    ({g.relationships[i].source_id : i \in 1..Len(g.relationships)}
     \cup {g.relationships[i].target_id : i \in 1..Len(g.relationships)})
    \ {g.nodes[i].id : i \in 1..Len(g.nodes)}

missing_nodes(g) ==
    {g.relationships[i].source_id : i \in 1..Len(g.relationships)}
    \cup ({g.relationships[i].target_id : i \in 1..Len(g.relationships)}
          \ {g.nodes[i].id : i \in 1..Len(g.nodes)})

validate_relationships(g) ==
    IF missing_nodes(g) # {}
    THEN <<Err(<<>>, "Value error, Relationships mention node ids that are not present in the nodes list",
               DataInput(g))>>
    ELSE <<>>

\* Validation of tool-call arguments against DynamicEventGraph: the field
\* errors, and the after-validator only when the fields are valid.
ValidationErrors(g) ==
    LET fieldErrors == NodeErrors(g.nodes) \o RelationshipErrors(g.relationships)
    IN IF fieldErrors # <<>> THEN fieldErrors ELSE validate_relationships(g)

(***************************************************************************)
(* EventGraph.graph: nodes are keyed by id in a dict (insertion order of   *)
(* the first occurrence, value of the last), relationships are resolved    *)
(* to Node objects.  A Node object is identified by the position of the    *)
(* input node it was built from; the heap maps objects to their fields.    *)
(***************************************************************************)
PropertiesDict(props) ==
    IF props = None THEN <<>>
    ELSE LET ps == props[1]
             keys == {ps[j].type : j \in 1..Len(ps)}
             last(k) == CHOOSE j \in 1..Len(ps) :
                            /\ ps[j].type = k
                            /\ \A h \in (j + 1)..Len(ps) : ps[h].type # k
         IN [k \in keys |-> ps[last(k)].value]

NewNode(n) == [id |-> n.id, type |-> n.type, properties |-> PropertiesDict(n.properties)]

DictLookupFirst(nodes, id) ==
    CHOOSE i \in 1..Len(nodes) :
        /\ nodes[i].id = id
        /\ \A h \in 1..(i - 1) : nodes[h].id # id

\* nodes_dict[id]: the object built from the last input node with that id
DictLookup(nodes, id) ==
    CHOOSE i \in 1..Len(nodes) :
        /\ nodes[i].id = id
        /\ \A h \in (i + 1)..Len(nodes) : nodes[h].id # id

\* list(nodes_dict.values()): one object per key, keys in first-insertion order
DictValues(nodes) ==
    LET firsts == SelectSeq([i \in 1..Len(nodes) |-> i],
                            LAMBDA i : \A h \in 1..(i - 1) : nodes[h].id # nodes[i].id)
    IN [k \in 1..Len(firsts) |-> DictLookup(nodes, nodes[firsts[k]].id)]

ResolveRelationshipFirst(nodes, rel) ==
    [source |-> CHOOSE i \in 1..Len(nodes) :
                    nodes[i].id = rel.source_id /\ \A h \in 1..(i - 1) : nodes[h].id # rel.source_id,
     target |-> CHOOSE i \in 1..Len(nodes) :
                    nodes[i].id = rel.target_id /\ \A h \in 1..(i - 1) : nodes[h].id # rel.target_id,
     type |-> rel.type]

ResolveRelationship(nodes, rel) ==
    [source |-> DictLookup(nodes, rel.source_id),
     target |-> DictLookup(nodes, rel.target_id),
     type |-> rel.type]

NoGraph == [nodes |-> <<>>, relationships |-> <<>>, heap |-> <<>>]

graph(g) ==
    LET ids == {g.nodes[i].id : i \in 1..Len(g.nodes)}
        resolvable ==
            \A i \in 1..Len(g.relationships) :
                g.relationships[i].source_id \in ids /\ g.relationships[i].target_id \in ids
    IN IF ~resolvable
       THEN [raised |-> Some("KeyError"), value |-> NoGraph]
       ELSE [raised |-> None,
             value |-> [nodes |-> DictValues(g.nodes),
                        relationships |-> [i \in 1..Len(g.relationships) |->
                                             ResolveRelationship(g.nodes, g.relationships[i])],
                        heap |-> [o \in Range(DictValues(g.nodes)) |-> NewNode(g.nodes[o])]]]

(***************************************************************************)
(* Parser.parse, lines 194-198: every node of the output graph gets a      *)
(* fresh uuid4-based id, which is also stored under the 'uri' property.    *)
(* uuid4 is modelled as a counter: the k-th draw is the number k.          *)
(***************************************************************************)
node_id(n) == "http://example.com/lkgb/logs/run/" \o ToString(n)

SetItem(d, k, v) == [x \in DOMAIN d \cup {k} |-> IF x = k THEN v ELSE d[x]]

IndexOf(s, x) == CHOOSE i \in 1..Len(s) : s[i] = x

ReassignedNodeNoUri(node, new_id) == [node EXCEPT !.id = new_id]

ReassignedNode(node, new_id) ==
    [node EXCEPT !.id = new_id, !.properties = SetItem(@, "uri", new_id)]

ReassignIds(g, u) ==
    [g EXCEPT !.heap = [o \in DOMAIN g.heap |->
                           ReassignedNode(g.heap[o], node_id(u + IndexOf(g.nodes, o)))]]

(***************************************************************************)
(* ParserReport (src/lkgb/reports.py).  The clock is logical: the number   *)
(* of chain invocations made so far.                                       *)
(***************************************************************************)
ParserReport(now) == [start_dt |-> now, end_dt |-> None, error |-> None, graph |-> None]

failureNoError(r, error, now) == [r EXCEPT !.end_dt = Some(now)]

failure(r, error, now) == [r EXCEPT !.end_dt = Some(now), !.error = Some(error)]

successNoEnd(r, g, now) == [r EXCEPT !.graph = Some(g)]

success(r, g, now) == [r EXCEPT !.end_dt = Some(now), !.graph = Some(g)]

\* An error attached to a report: a message, and the field errors when the
\* error is a validation error.
ErrorValue(message, errors) == [message |-> message, errors |-> errors]

NoValidOutput ==
    ErrorValue("No valid output was produced within the self-reflection steps.", <<>>)

(***************************************************************************)
(* Messages.  The raw assistant message carries content, id, tool calls    *)
(* and response metadata; the transcript keeps a cleaned copy.             *)
(***************************************************************************)
AIMessage(content, id, tool_calls) ==
    [type |-> "ai", content |-> content, id |-> id, tool_calls |-> tool_calls]

FormatMsg == "Your answer does not respect the expected format. Please try again."

FixMsg == " Fix these errors, without modifying anything else: "

\* parser.py 176-183: location is the joined path, message and invalid input
CorrectionErrors(parsing_error) ==
    [i \in 1..Len(parsing_error) |->
        [location |-> parsing_error[i].loc,
         message |-> parsing_error[i].msg,
         invalid_input |-> parsing_error[i].input]]

CorrectionMessageGeneric(raw_schema) ==
    [type |-> "human", content |-> <<FormatMsg>>, errors |-> <<>>]

\* parser.py 171-188: the human correction message
CorrectionMessage(raw_schema) ==
    IF raw_schema.parsing_error # None
    THEN [type |-> "human", content |-> <<FormatMsg, FixMsg>>,
          errors |-> CorrectionErrors(raw_schema.parsing_error[1])]
    ELSE [type |-> "human", content |-> <<FormatMsg>>, errors |-> <<>>]

\* parser.py 159-164: the cleaned copy of the raw assistant message
CleanedAnswer(llm_answer) ==
    AIMessage(llm_answer.content, llm_answer.id, llm_answer.tool_calls)

AppendCorrectionsNoAnswer(cs, raw_schema) == Append(cs, CorrectionMessage(raw_schema))

AppendCorrectionsInFront(cs, raw_schema) ==
    <<CleanedAnswer(raw_schema.raw[1]), CorrectionMessage(raw_schema)>> \o cs

\* parser.py 162 and 188: what a failed attempt with raw output appends
AppendCorrections(cs, raw_schema) ==
    Append(Append(cs, CleanedAnswer(raw_schema.raw[1])), CorrectionMessage(raw_schema))

(***************************************************************************)
(* The responses of the chain.  With include_raw the structured-output     *)
(* chain returns raw, parsed and parsing_error; parsed is the tool-call    *)
(* arguments validated against DynamicEventGraph.  A stub may also leave   *)
(* the raw key out or set it to None.                                      *)
(***************************************************************************)
EventNode ==
    [id |-> "a", type |-> "Event",
     properties |-> Some(<<[type |-> "eventMessage", value |-> "VERIFY EKU OK"]>>)]

UserNode ==
    [id |-> "b", type |-> "User",
     properties |-> Some(<<[type |-> "userName", value |-> "jhall"],
                           [type |-> "uri", value |-> "b"]>>)]

HostNode == [id |-> "b", type |-> "Host", properties |-> None]

Rel(s, t, ty) == [source_id |-> s, target_id |-> t, type |-> ty]

NodeLists == {<<EventNode, UserNode>>, <<EventNode>>, <<EventNode, HostNode>>}

RelLists == {<<>>, <<Rel("a", "b", "hasUser")>>, <<Rel("a", "c", "hasUser")>>}

\* known types and present endpoints, but a User as the source of hasUser
ReversedTriple == [nodes |-> <<EventNode, UserNode>>, relationships |-> <<Rel("b", "a", "hasUser")>>]

\* a valid graph whose Event node has no eventMessage property
MessagelessEvent ==
    [nodes |-> <<[id |-> "a", type |-> "Event", properties |-> None]>>, relationships |-> <<>>]

Candidates ==
    {[nodes |-> ns, relationships |-> rs] : ns \in NodeLists, rs \in RelLists}
    \cup {ReversedTriple, MessagelessEvent}

RawMessages ==
    {[content |-> "I cannot parse this event.", id |-> "run-0", tool_calls |-> <<>>,
      response_metadata |-> "usage"]}
    \cup {[content |-> "", id |-> "run-1",
           tool_calls |-> <<[name |-> "DynamicEventGraph", args |-> c]>>,
           response_metadata |-> "usage"] : c \in Candidates}

ChainOutput(m) ==
    IF m.tool_calls = <<>>
    THEN [has_raw |-> TRUE, raw |-> Some(m), parsed |-> None, parsing_error |-> None]
    ELSE LET args == m.tool_calls[1].args
             errs == ValidationErrors(args)
         IN IF errs = <<>>
            THEN [has_raw |-> TRUE, raw |-> Some(m), parsed |-> Some(args), parsing_error |-> None]
            ELSE [has_raw |-> TRUE, raw |-> Some(m), parsed |-> None, parsing_error |-> Some(errs)]

NoRawKey == [has_raw |-> FALSE, raw |-> None, parsed |-> None, parsing_error |-> None]

NullRaw == [has_raw |-> TRUE, raw |-> None, parsed |-> None, parsing_error |-> None]

Responses == {NoRawKey, NullRaw} \cup {ChainOutput(m) : m \in RawMessages}

(***************************************************************************)
(* Parser._get_examples: one message group per similar event.              *)
(***************************************************************************)
SimilarEvents ==
    {<<>>,
     <<[event |-> "VERIFY OK", source |-> Some([sourceName |-> "openvpn", sourceHost |-> "gw"])]>>}

ContextKeys == {"sourceName", "sourceType", "sourceDevice"}

ExampleContext(source_node) ==
    IF source_node = None THEN <<>>
    ELSE [k \in ContextKeys \cap DOMAIN source_node[1] |-> source_node[1][k]]

_get_examples(similar_events, u) ==
    [i \in 1..Len(similar_events) |->
        [event |-> similar_events[i].event,
         context |-> ExampleContext(similar_events[i].source),
         tool_call_id |-> u + 2 * i - 1,
         run_id |-> u + 2 * i]]

(***************************************************************************)
(* Parser.parse as a state machine.  One action per loop iteration: the    *)
(* chain invocation together with the handling of its result.              *)
(***************************************************************************)
AttemptRangeOneMore(steps) == 0..(steps + 1)

\* parser.py 140: range(self.self_reflection_steps + 1)
AttemptRange(steps) == 0..steps

InvocationRefetched(result) ==
    [examples |-> IF current_step = 0 THEN examples ELSE <<>>,
     corrections |-> corrections, step |-> current_step, result |-> result]

Invocation(result) ==
    [examples |-> examples, corrections |-> corrections, step |-> current_step,
     result |-> result]

Now == Len(invocations)

\* The state before the Parser is constructed.
Frames == {1, 2}

\* the locals of Parser.parse: event, current_step, corrections
NoFrame == [pc |-> "idle", event |-> 0, current_step |-> 0, corrections |-> <<>>]

FramesIdle ==
    /\ frames = [f \in Frames |-> NoFrame]
    /\ frame_log = {}
    /\ frame_calls = 0

(***************************************************************************)
(* The Neo4j store shared by the store modules.  A node has its labels,    *)
(* its uri (the base url it starts with and the rest) and the experiment   *)
(* it is tagged with (0 when it is not tagged).                            *)
(***************************************************************************)
LOG_ONTOLOGY_URL == "http://example.com/lkgb/logs/dictionary"
TIME_ONTOLOGY_URL == "http://www.w3.org/2006/time"
LOG_EXAMPLES_URL == "http://example.com/lkgb/logs/examples"
LOG_TESTS_URL == "http://example.com/lkgb/logs/tests"
LOG_RUN_URL == "http://example.com/lkgb/logs/run/"
EVENTS_INDEX_NAME == "eventMessageIndex"
N10S_CONSTRAINT_NAME == "n10s_unique_uri"

Uri(base, rest) == [base |-> base, rest |-> rest]

NoUri == Uri("", "")

\* n.uri STARTS WITH url: none of the base urls is a prefix of another
StartsWith(uri, url) == uri.base = url

\* config.py 100-122: what the Experiment node keeps of Config.dump()
Config(ontology_hash, examples_hash) ==
    [ontology_hash |-> ontology_hash, examples_hash |-> examples_hash]

NoDetails == Config("", "")

DefaultConfig == Config("sha-a", "sha-a")

Configs == {Config("sha-a", "sha-a"), Config("sha-b", "sha-a"), Config("sha-a", "sha-b")}

DbNode(labels, uri, experiment) ==
    [labels |-> labels, uri |-> uri, experiment |-> experiment, details |-> NoDetails]

\* the k-th Experiment node by experiment_date_time, with its details
ExperimentNode(k, details) == [DbNode({"Experiment"}, NoUri, k) EXCEPT !.details = details]

GraphConfigNode == DbNode({"_GraphConfig"}, NoUri, 0)

\* what Ontology.initialize loads: the n10s configuration, one class per
\* node type of the ontology file, and the classes of the time ontology
OntologyDb(ont) ==
    IF ont.nodes = {} THEN {}
    ELSE {GraphConfigNode, DbNode({"Resource", "Class"}, Uri(TIME_ONTOLOGY_URL, "Instant"), 0)}
         \cup {DbNode({"Resource", "Class"}, Uri(LOG_ONTOLOGY_URL, n.type), 0) : n \in ont.nodes}

\* what Dataset.initialize loads: the labelled examples and the tests
DatasetDb ==
    {DbNode({"Resource", "Event"}, Uri(LOG_EXAMPLES_URL, "event1"), 0),
     DbNode({"Resource", "Source"}, Uri(LOG_EXAMPLES_URL, "source1"), 0),
     DbNode({"Resource", "Event"}, Uri(LOG_TESTS_URL, "event1"), 0)}

DbRel(source, type, target) == [source |-> source, type |-> type, target |-> target]

DatasetRels ==
    {DbRel(DbNode({"Resource", "Event"}, Uri(LOG_EXAMPLES_URL, "event1"), 0), "hasSource",
           DbNode({"Resource", "Source"}, Uri(LOG_EXAMPLES_URL, "source1"), 0))}

\* the store after Store.initialize with the ontology ont
StoreDb(ont) ==
    [nodes |-> {ExperimentNode(1, DefaultConfig)} \cup OntologyDb(ont) \cup DatasetDb,
     relationships |-> DatasetRels,
     indexes |-> {EVENTS_INDEX_NAME},
     constraints |-> IF ont.nodes = {} THEN {} ELSE {N10S_CONSTRAINT_NAME}]

\* MATCH ... DETACH DELETE n: the nodes and every relationship on them
DetachDelete(dbv, gone) ==
    [dbv EXCEPT !.nodes = @ \ gone,
                !.relationships = {r \in @ : r.source \notin gone /\ r.target \notin gone}]

latest_experimentOldest(dbv) ==
    LET ks == {n.experiment : n \in {m \in dbv.nodes : "Experiment" \in m.labels}}
    IN IF ks = {} THEN 0 ELSE CHOOSE k \in ks : \A h \in ks : k <= h

\* driver.py 40-48: the number of the latest Experiment node, 0 if none
latest_experiment(dbv) ==
    LET ks == {n.experiment : n \in {m \in dbv.nodes : "Experiment" \in m.labels}}
    IN IF ks = {} THEN 0 ELSE CHOOSE k \in ks : \A h \in ks : h <= k

\* driver.py 40-48: the row of the latest Experiment node
latest_experiment_node(dbv) ==
    CHOOSE n \in dbv.nodes : "Experiment" \in n.labels /\ n.experiment = latest_experiment(dbv)

\* dataset.py 147-157: the node apoc.create.node makes of a parsed node
StoredNode(node, experiment_id) ==
    DbNode({node.type},
           IF "uri" \in DOMAIN node.properties
           THEN Uri(LOG_RUN_URL, node.properties["uri"])
           ELSE NoUri,
           experiment_id)

\* dataset.py 137-171: the nodes are created in order; an Event node without
\* the eventMessage property raises KeyError at line 152, after the nodes
\* before it were created and before any relationship is
add_event_graph(dbv, g, experiment_id) ==
    LET bad == {i \in 1..Len(g.nodes) :
                   /\ g.heap[g.nodes[i]].type = "Event"
                   /\ "eventMessage" \notin DOMAIN g.heap[g.nodes[i]].properties}
        stop == IF bad = {} THEN Len(g.nodes)
                ELSE (CHOOSE i \in bad : \A h \in bad : i <= h) - 1
        created == {StoredNode(g.heap[g.nodes[i]], experiment_id) : i \in 1..stop}
    IN IF bad # {}
       THEN [raised |-> Some("KeyError"), db |-> [dbv EXCEPT !.nodes = @ \cup created]]
       ELSE [raised |-> None,
             db |-> [dbv EXCEPT !.nodes = @ \cup created,
                                !.relationships = @ \cup
                                    {DbRel(StoredNode(g.heap[g.relationships[i].source], experiment_id),
                                           g.relationships[i].type,
                                           StoredNode(g.heap[g.relationships[i].target], experiment_id)) :
                                        i \in 1..Len(g.relationships)}]]

\* any query or the embedding call of add_event_graph may also fail
add_event_graph_outcomes(dbv, g, experiment_id) ==
    {add_event_graph(dbv, g, experiment_id), [raised |-> Some("StoreError"), db |-> dbv]}

NoBatch == [pc |-> "idle", unpackable |-> TRUE, event |-> 0, reports |-> <<>>, passed |-> <<>>]

NoLookup == [pc |-> "idle", http |-> None, result |-> None]

\* The template parser before its first compute_template call: the logs to
\* process, the vector store, the history, and the locals of the call.
TemplateParser(logs, store, quality) ==
    [pc |-> "idle", logs |-> logs, position |-> 0, store |-> store,
     memory_match_min_quality |-> quality, history |-> <<>>,
     log |-> <<>>, very_similar |-> <<>>, similar |-> <<>>, path |-> "none",
     countdown |-> 0, invoked |-> 0, messages |-> <<>>, generated |-> None,
     template_regex |-> None, updated |-> {}, raised |-> None, before |-> <<>>,
     history_len |-> 0]

NoTemplateParser == TemplateParser(<<>>, <<>>, 0)

RunIdle ==
    /\ config = DefaultConfig
    /\ tp = NoTemplateParser

ExtIdle ==
    /\ batch = NoBatch
    /\ lookup = NoLookup
    /\ db = StoreDb(ontology)
    /\ RunIdle

Unbuilt ==
    /\ FramesIdle
    /\ ExtIdle
    /\ pc = "new"
    /\ current_step = 0
    /\ examples = <<>>
    /\ corrections = <<>>
    /\ invocations = <<>>
    /\ report = None
    /\ exception = None
    /\ uuid = 0
    /\ eg = None
    /\ output_graph = None
    /\ gpc = "none"
    /\ schema = None
    /\ validation = None
    /\ calls = 0
    /\ searches = 0

Init ==
    /\ self_reflection_steps \in 0..MaxSteps
    /\ ontology = LogOntology
    /\ supports_structured_output \in BOOLEAN
    /\ Unbuilt

\* parser.py 76-80: with_structured_output raises NotImplementedError,
\* re-raised as ValueError before any chain is built
ParserInitUnchecked ==
    /\ pc = "new"
    /\ ~supports_structured_output
    /\ schema' = Some(build_dynamic_model(ontology))
    /\ pc' = "idle"
    /\ UNCHANGED <<self_reflection_steps, current_step, examples, corrections, invocations,
                   report, exception, uuid, eg, output_graph, gpc,
                   ontology, supports_structured_output, validation, callVars, frameVars, extVars, runVars>>

ParserInitUnsupported ==
    /\ pc = "new"
    /\ ~supports_structured_output
    /\ exception' = Some("ValueError")
    /\ pc' = "config_error"
    /\ UNCHANGED <<self_reflection_steps, current_step, examples, corrections, invocations,
                   report, uuid, eg, output_graph, gpc, envVars, callVars, frameVars, extVars, runVars>>

\* parser.py 72-102: the dynamic model is compiled from the ontology of the
\* store and bound into the chain
ParserInit ==
    /\ pc = "new"
    /\ supports_structured_output
    /\ schema' = Some(build_dynamic_model(ontology))
    /\ pc' = "idle"
    /\ UNCHANGED <<self_reflection_steps, current_step, examples, corrections, invocations,
                   report, exception, uuid, eg, output_graph, gpc,
                   ontology, supports_structured_output, validation, callVars, frameVars, extVars, runVars>>

\* parser.py 132-141: the entry of parse, up to the loop
ParseCall ==
    /\ pc \in {"idle", "done"}
    /\ \E similar_events \in SimilarEvents :
          /\ examples' = _get_examples(similar_events, uuid)
          /\ uuid' = uuid + 2 * Len(similar_events)
    /\ searches' = searches + 1
    /\ calls' = calls + 1
    /\ invocations' = <<>>
    /\ report' = Some(ParserReport(0))
    /\ corrections' = <<>>
    /\ current_step' = 0
    /\ pc' = "loop"
    /\ UNCHANGED <<self_reflection_steps, exception, eg, output_graph, gpc, envVars, frameVars,
                   lookup, db, runVars>>

ParseStartRequiresExamples ==
    /\ pc \in {"idle", "done"}
    /\ calls < MaxCalls
    /\ \E similar_events \in SimilarEvents :
          /\ examples' = _get_examples(similar_events, uuid)
          /\ uuid' = uuid + 2 * Len(similar_events)
          /\ IF similar_events = <<>>
             THEN /\ report' = Some(failure(ParserReport(0), ErrorValue("No similar events.", <<>>), 1))
                  /\ pc' = "done"
             ELSE /\ report' = Some(ParserReport(0))
                  /\ pc' = "loop"
    /\ searches' = searches + 1
    /\ calls' = calls + 1
    /\ invocations' = <<>>
    /\ corrections' = <<>>
    /\ current_step' = 0
    /\ UNCHANGED <<self_reflection_steps, exception, eg, output_graph, gpc, envVars, frameVars, extVars, runVars>>

ParseStart ==
    /\ calls < MaxCalls
    /\ ParseCall
    /\ UNCHANGED batch

InLoop == pc = "loop" /\ current_step \in AttemptRange(self_reflection_steps)

\* parser.py 143-150: chain.invoke raises; nothing in parse catches it
InvokeRaises ==
    /\ InLoop
    /\ invocations' = Append(invocations, Invocation(None))
    /\ exception' = Some("BackendError")
    /\ pc' = "raised"
    /\ UNCHANGED <<self_reflection_steps, current_step, examples, corrections, report,
                   uuid, eg, output_graph, gpc, envVars, callVars, frameVars, extVars, runVars>>

\* parser.py 155-169: not parsed and raw_schema["raw"] raises KeyError
AttemptNoRaw ==
    /\ InLoop
    /\ \E raw_schema \in Responses :
          /\ raw_schema.parsed = None
          /\ ~raw_schema.has_raw
          /\ invocations' = Append(invocations, Invocation(Some(raw_schema)))
    /\ current_step' = current_step + 1
    /\ UNCHANGED <<self_reflection_steps, pc, examples, corrections, report, exception,
                   uuid, eg, output_graph, gpc, envVars, callVars, frameVars, extVars, runVars>>

\* parser.py 159-165: raw is None, llm_answer.content raises AttributeError,
\* which except KeyError does not catch
AttemptNullRaw ==
    /\ InLoop
    /\ \E raw_schema \in Responses :
          /\ raw_schema.parsed = None
          /\ raw_schema.has_raw
          /\ raw_schema.raw = None
          /\ invocations' = Append(invocations, Invocation(Some(raw_schema)))
    /\ exception' = Some("AttributeError")
    /\ pc' = "raised"
    /\ UNCHANGED <<self_reflection_steps, current_step, examples, corrections, report,
                   uuid, eg, output_graph, gpc, envVars, callVars, frameVars, extVars, runVars>>

\* parser.py 155-190: not parsed, raw output present: the cleaned answer and
\* the correction message are appended, then continue
AttemptCorrected ==
    /\ InLoop
    /\ \E raw_schema \in Responses :
          /\ raw_schema.parsed = None
          /\ raw_schema.has_raw
          /\ raw_schema.raw # None
          /\ invocations' = Append(invocations, Invocation(Some(raw_schema)))
          /\ corrections' = AppendCorrections(corrections, raw_schema)
    /\ current_step' = current_step + 1
    /\ UNCHANGED <<self_reflection_steps, pc, examples, report, exception,
                   uuid, eg, output_graph, gpc, envVars, callVars, frameVars, extVars, runVars>>

\* parser.py 192-201: parsed output: graph(), id reassignment, success
AttemptParsed ==
    /\ InLoop
    /\ \E raw_schema \in Responses :
          /\ raw_schema.parsed # None
          /\ invocations' = Append(invocations, Invocation(Some(raw_schema)))
          /\ LET built == graph(raw_schema.parsed[1])
             IN IF built.raised # None
                THEN /\ exception' = built.raised
                     /\ pc' = "raised"
                     /\ UNCHANGED <<report, uuid>>
                ELSE /\ report' = Some(success(report[1], ReassignIds(built.value, uuid), Now + 1))
                     /\ uuid' = uuid + Len(built.value.nodes)
                     /\ pc' = "done"
                     /\ UNCHANGED exception
    /\ UNCHANGED <<self_reflection_steps, current_step, examples, corrections,
                   eg, output_graph, gpc, envVars, callVars, frameVars, extVars, runVars>>

\* parser.py 203: the loop is exhausted
LoopExit ==
    /\ pc = "loop"
    /\ current_step \notin AttemptRange(self_reflection_steps)
    /\ report' = Some(failure(report[1], NoValidOutput, Now))
    /\ pc' = "done"
    /\ UNCHANGED <<self_reflection_steps, current_step, examples, corrections, invocations,
                   exception, uuid, eg, output_graph, gpc, envVars, callVars, frameVars, extVars, runVars>>

Next ==
    \/ ParserInitUnsupported
    \/ ParserInit
    \/ ParseStart
    \/ InvokeRaises
    \/ AttemptNoRaw
    \/ AttemptNullRaw
    \/ AttemptCorrected
    \/ AttemptParsed
    \/ LoopExit

Spec == Init /\ [][Next]_vars

(***************************************************************************)
(* EventGraph.graph called on an EventGraph instance, followed by the id   *)
(* reassignment of Parser.parse.  The base EventGraph types its fields as  *)
(* plain lists, so any node and relationship lists can be given.           *)
(***************************************************************************)
GraphNodeChoices ==
    {[id |-> i, type |-> t, properties |-> ps] :
        i \in {"a", "b"}, t \in {"Event", "User"},
        ps \in {None, Some(<<[type |-> "uri", value |-> "llm"]>>)}}

GraphRelChoices == {Rel(s, t, "hasUser") : s \in {"a", "b", "c"}, t \in {"a", "b", "c"}}

EventGraphs ==
    {[nodes |-> ns, relationships |-> rs] :
        ns \in SeqsUpTo(GraphNodeChoices, MaxNodes), rs \in SeqsUpTo(GraphRelChoices, MaxRels)}

InitGraph ==
    /\ FramesIdle
    /\ self_reflection_steps = 0
    /\ pc = "idle"
    /\ current_step = 0
    /\ examples = <<>>
    /\ corrections = <<>>
    /\ invocations = <<>>
    /\ report = None
    /\ exception = None
    /\ uuid = 0
    /\ eg \in {Some(g) : g \in EventGraphs}
    /\ output_graph = None
    /\ gpc = "given"
    /\ ontology = LogOntology
    /\ supports_structured_output = TRUE
    /\ schema = None
    /\ validation = None
    /\ calls = 0
    /\ searches = 0
    /\ ExtIdle

\* models.py 13-29
CallGraph ==
    /\ gpc = "given"
    /\ LET built == graph(eg[1])
       IN IF built.raised # None
          THEN /\ exception' = built.raised
               /\ gpc' = "raised"
               /\ UNCHANGED output_graph
          ELSE /\ output_graph' = Some(built.value)
               /\ gpc' = "built"
               /\ UNCHANGED exception
    /\ UNCHANGED <<self_reflection_steps, pc, current_step, examples, corrections,
                   invocations, report, uuid, eg, envVars, callVars, frameVars, extVars, runVars>>

\* parser.py 194-198
CallReassignIds ==
    /\ gpc = "built"
    /\ output_graph' = Some(ReassignIds(output_graph[1], uuid))
    /\ uuid' = uuid + Len(output_graph[1].nodes)
    /\ gpc' = "reassigned"
    /\ UNCHANGED <<self_reflection_steps, pc, current_step, examples, corrections,
                   invocations, report, exception, eg, envVars, callVars, frameVars, extVars, runVars>>

NextGraph == CallGraph \/ CallReassignIds

SpecGraph == InitGraph /\ [][NextGraph]_vars

(***************************************************************************)
(* Validation alone: tool-call arguments are validated against the         *)
(* DynamicEventGraph compiled from an ontology.                            *)
(***************************************************************************)
SchemaNodeChoices ==
    {[id |-> i, type |-> t, properties |-> ps] :
        i \in {"a", "b"}, t \in {"Event", "User", "Host"},
        ps \in {None} \cup {Some(<<[type |-> k, value |-> "v"]>>) :
                                k \in {"eventMessage", "userName", "uri", "color"}}}

SchemaRelChoices == {Rel("a", "b", ty) : ty \in {"hasUser", "hasHost"}}

SchemaInputs ==
    {[nodes |-> ns, relationships |-> rs] :
        ns \in SeqsUpTo(SchemaNodeChoices, MaxNodes), rs \in SeqsUpTo(SchemaRelChoices, MaxRels)}

InitSchema ==
    /\ FramesIdle
    /\ self_reflection_steps = 0
    /\ pc = "idle"
    /\ current_step = 0
    /\ examples = <<>>
    /\ corrections = <<>>
    /\ invocations = <<>>
    /\ report = None
    /\ exception = None
    /\ uuid = 0
    /\ eg \in {Some(g) : g \in SchemaInputs}
    /\ output_graph = None
    /\ gpc = "args"
    /\ ontology \in Ontologies
    /\ supports_structured_output = TRUE
    /\ schema = Some(build_dynamic_model(ontology))
    /\ validation = None
    /\ calls = 0
    /\ searches = 0
    /\ ExtIdle

\* models.py 47-102: DynamicEventGraph is instantiated from the arguments
ValidateArgs ==
    /\ gpc = "args"
    /\ validation' = Some(ValidationErrors(eg[1]))
    /\ gpc' = "validated"
    /\ UNCHANGED <<self_reflection_steps, pc, current_step, examples, corrections,
                   invocations, report, exception, uuid, eg, output_graph,
                   ontology, supports_structured_output, schema, callVars, frameVars, extVars, runVars>>

NextSchema == ValidateArgs

SpecSchema == InitSchema /\ [][NextSchema]_vars

(***************************************************************************)
(* The Parser next to a store whose ontology is cleared and loaded again   *)
(* between parse calls (Ontology.clear, Ontology.initialize).              *)
(***************************************************************************)
InitOntology ==
    /\ self_reflection_steps = 0
    /\ ontology \in Ontologies
    /\ supports_structured_output \in BOOLEAN
    /\ Unbuilt

\* store/ontology.py 47-57
OntologyClear ==
    /\ pc \in {"idle", "done"}
    /\ ontology # EmptyOntology
    /\ ontology' = EmptyOntology
    /\ db' = [DetachDelete(db, {n \in db.nodes :
                                  \/ "_GraphConfig" \in n.labels
                                  \/ /\ "Resource" \in n.labels
                                     /\ \/ StartsWith(n.uri, TIME_ONTOLOGY_URL)
                                        \/ StartsWith(n.uri, LOG_ONTOLOGY_URL)})
                EXCEPT !.constraints = @ \ {N10S_CONSTRAINT_NAME}]
    /\ UNCHANGED <<self_reflection_steps, pc, current_step, examples, corrections,
                   invocations, report, exception, uuid, eg, output_graph, gpc,
                   supports_structured_output, schema, validation, callVars, frameVars,
                   batch, lookup, runVars>>

\* store/ontology.py 25-45: nothing is loaded unless the store is empty
OntologyInitialize ==
    /\ pc \in {"idle", "done"}
    /\ ontology = EmptyOntology
    /\ \A n \in db.nodes : "_GraphConfig" \notin n.labels
    /\ \E ont \in Ontologies \ {EmptyOntology} :
          /\ ontology' = ont
          /\ db' = [db EXCEPT !.nodes = @ \cup OntologyDb(ont),
                              !.constraints = @ \cup {N10S_CONSTRAINT_NAME}]
    /\ UNCHANGED <<self_reflection_steps, pc, current_step, examples, corrections,
                   invocations, report, exception, uuid, eg, output_graph, gpc,
                   supports_structured_output, schema, validation, callVars, frameVars,
                   batch, lookup, runVars>>

NextOntology ==
    \/ Next
    \/ OntologyClear
    \/ OntologyInitialize

SpecOntology == InitOntology /\ [][NextOntology]_vars

(***************************************************************************)
(* Several parse calls running on one Parser: each call has its own        *)
(* locals (parser.py 132-140), the Parser object holds only the chain.     *)
(* Call number n parses event n and the backend's answers carry n as id.   *)
(***************************************************************************)
InitInterleave ==
    /\ self_reflection_steps \in 0..MaxSteps
    /\ pc = "idle"
    /\ current_step = 0
    /\ examples = <<>>
    /\ corrections = <<>>
    /\ invocations = <<>>
    /\ report = None
    /\ exception = None
    /\ uuid = 0
    /\ eg = None
    /\ output_graph = None
    /\ gpc = "none"
    /\ ontology = LogOntology
    /\ supports_structured_output = TRUE
    /\ schema = Some(build_dynamic_model(ontology))
    /\ validation = None
    /\ calls = 0
    /\ searches = 0
    /\ FramesIdle
    /\ ExtIdle

FrameResponses(event) ==
    {NoRawKey, NullRaw}
    \cup {ChainOutput([content |-> "", id |-> event, tool_calls |-> tc, response_metadata |-> "usage"]) :
            tc \in {<<[name |-> "DynamicEventGraph", args |-> [nodes |-> <<EventNode>>, relationships |-> <<>>]]>>,
                    <<[name |-> "DynamicEventGraph", args |-> [nodes |-> <<EventNode, HostNode>>, relationships |-> <<>>]]>>}}

FrameAppendShared(fs, f, raw_schema) ==
    [g \in Frames |->
        [fs[g] EXCEPT !.corrections = AppendCorrections(fs[g].corrections, raw_schema),
                      !.current_step = IF g = f THEN @ + 1 ELSE @]]

\* parser.py 158-190 on the locals of call f
FrameAppend(fs, f, raw_schema) ==
    [fs EXCEPT ![f].corrections = AppendCorrections(fs[f].corrections, raw_schema),
               ![f].current_step = @ + 1]

FrameInvocation(f) ==
    [event |-> frames[f].event, step |-> frames[f].current_step,
     corrections |-> frames[f].corrections]

FrameInLoop(f) ==
    frames[f].pc = "loop" /\ frames[f].current_step \in AttemptRange(self_reflection_steps)

\* parser.py 132-137
FrameStart(f) ==
    /\ frames[f].pc \in {"idle", "done"}
    /\ frame_calls < MaxFrameCalls
    /\ frame_calls' = frame_calls + 1
    /\ frames' = [frames EXCEPT ![f] = [pc |-> "loop", event |-> frame_calls + 1,
                                         current_step |-> 0, corrections |-> <<>>]]
    /\ UNCHANGED <<parseVars, uuid, eg, output_graph, gpc, envVars, callVars, frame_log, extVars, runVars>>

\* parser.py 143-150: chain.invoke raises
FrameInvokeRaises(f) ==
    /\ FrameInLoop(f)
    /\ frame_log' = frame_log \cup {FrameInvocation(f)}
    /\ frames' = [frames EXCEPT ![f].pc = "raised"]
    /\ UNCHANGED <<parseVars, uuid, eg, output_graph, gpc, envVars, callVars, frame_calls, extVars, runVars>>

\* parser.py 140-201: one iteration of the loop of call f
FrameAttempt(f) ==
    /\ FrameInLoop(f)
    /\ frame_log' = frame_log \cup {FrameInvocation(f)}
    /\ \E raw_schema \in FrameResponses(frames[f].event) :
          IF raw_schema.parsed # None
          THEN frames' = [frames EXCEPT ![f].pc = "done"]
          ELSE IF ~raw_schema.has_raw
               THEN frames' = [frames EXCEPT ![f].current_step = @ + 1]
               ELSE IF raw_schema.raw = None
                    THEN frames' = [frames EXCEPT ![f].pc = "raised"]
                    ELSE frames' = FrameAppend(frames, f, raw_schema)
    /\ UNCHANGED <<parseVars, uuid, eg, output_graph, gpc, envVars, callVars, frame_calls, extVars, runVars>>

\* parser.py 203
FrameExit(f) ==
    /\ frames[f].pc = "loop"
    /\ frames[f].current_step \notin AttemptRange(self_reflection_steps)
    /\ frames' = [frames EXCEPT ![f].pc = "done"]
    /\ UNCHANGED <<parseVars, uuid, eg, output_graph, gpc, envVars, callVars, frame_log, frame_calls, extVars, runVars>>

NextInterleave ==
    \/ \E f \in Frames : FrameStart(f)
    \/ \E f \in Frames : FrameInvokeRaises(f)
    \/ \E f \in Frames : FrameAttempt(f)
    \/ \E f \in Frames : FrameExit(f)

SpecInterleave == InitInterleave /\ [][NextInterleave]_vars

(***************************************************************************)
(* The earlier Parser (src/lkgb/parser.py): one chain invocation per parse *)
(* call, no schema check of the types, assembly inside parse.              *)
(***************************************************************************)
\* parser.py 155-175 and 22-58: at most one example group, built from the
\* event being parsed and the context of the similar event
old_get_examples(similar_events) ==
    IF Len(similar_events) = 0 THEN <<>>
    ELSE <<[event |-> "VERIFY EKU OK",
            context |-> IF similar_events[1].source = None THEN <<>>
                        ELSE [source |-> IF "sourceName" \in DOMAIN similar_events[1].source[1]
                                         THEN Some(similar_events[1].source[1]["sourceName"])
                                         ELSE None,
                              device |-> IF "sourceDevice" \in DOMAIN similar_events[1].source[1]
                                         THEN Some(similar_events[1].source[1]["sourceDevice"])
                                         ELSE None],
            tool_call_id |-> "1"]>>

\* the structured output of the earlier chain: the types are plain strings,
\* so every well-formed graph is parsed
OldResponses ==
    {[has_raw |-> TRUE,
      raw |-> Some([content |-> "", id |-> "run-1",
                    tool_calls |-> <<[name |-> "DynamicEventGraph", args |-> g]>>,
                    response_metadata |-> "usage"]),
      parsed |-> Some(g), parsing_error |-> None] : g \in EventGraphs}
    \cup {[has_raw |-> TRUE,
           raw |-> Some([content |-> "I cannot parse this event.", id |-> "run-0",
                         tool_calls |-> <<>>, response_metadata |-> "usage"]),
           parsed |-> None, parsing_error |-> None],
          [has_raw |-> TRUE,
           raw |-> Some([content |-> "", id |-> "run-1",
                         tool_calls |-> <<[name |-> "DynamicEventGraph", args |-> [nodes |-> <<>>]]>>,
                         response_metadata |-> "usage"]),
           parsed |-> None,
           parsing_error |-> Some(<<Err(<<"relationships">>, "Field required",
                                        DataInput([nodes |-> <<>>]))>>)]}

OldAssembleLenient(g) ==
    LET ids == {g.nodes[i].id : i \in 1..Len(g.nodes)}
        kept == SelectSeq(g.relationships, LAMBDA r : r.source_id \in ids /\ r.target_id \in ids)
    IN [raised |-> None,
        value |-> [nodes |-> DictValues(g.nodes),
                   relationships |-> [i \in 1..Len(kept) |-> ResolveRelationship(g.nodes, kept[i])],
                   heap |-> [o \in Range(DictValues(g.nodes)) |-> NewNode(g.nodes[o])]]]

\* parser.py 216-237: nodes_dict, then the relationships in order; the first
\* id that is not a key raises KeyError
OldAssemble(g) ==
    LET ids == {g.nodes[i].id : i \in 1..Len(g.nodes)}
        unresolved == {i \in 1..Len(g.relationships) :
                          g.relationships[i].source_id \notin ids
                          \/ g.relationships[i].target_id \notin ids}
        first == CHOOSE i \in unresolved : \A h \in unresolved : i <= h
        key == IF g.relationships[first].source_id \notin ids
               THEN g.relationships[first].source_id
               ELSE g.relationships[first].target_id
    IN IF unresolved # {}
       THEN [raised |-> Some(key), value |-> NoGraph]
       ELSE [raised |-> None,
             value |-> [nodes |-> DictValues(g.nodes),
                        relationships |-> [i \in 1..Len(g.relationships) |->
                                             ResolveRelationship(g.nodes, g.relationships[i])],
                        heap |-> [o \in Range(DictValues(g.nodes)) |-> NewNode(g.nodes[o])]]]

NotParsed ==
    ErrorValue("The output was not parsed correctly, and no error message was returned by the llm.",
               <<>>)

\* parser.py 195-239: the report for one chain output
OldOutcome(r, raw_schema, now) ==
    IF raw_schema.parsed = None
    THEN IF raw_schema.parsing_error # None
         THEN failure(r, ErrorValue("ValidationError", raw_schema.parsing_error[1]), now)
         ELSE failure(r, NotParsed, now)
    ELSE LET built == OldAssemble(raw_schema.parsed[1])
         IN IF built.raised # None
            THEN failure(r, ErrorValue("KeyError",
                                       <<Err(<<>>, built.raised[1], FieldInput(built.raised[1]))>>), now)
            ELSE success(r, built.value, now)

InitOld ==
    /\ self_reflection_steps \in {0, MaxSteps}
    /\ pc = "idle"
    /\ current_step = 0
    /\ examples = <<>>
    /\ corrections = <<>>
    /\ invocations = <<>>
    /\ report = None
    /\ exception = None
    /\ uuid = 0
    /\ eg = None
    /\ output_graph = None
    /\ gpc = "none"
    /\ ontology = LogOntology
    /\ supports_structured_output = TRUE
    /\ schema = None
    /\ validation = None
    /\ calls = 0
    /\ searches = 0
    /\ FramesIdle
    /\ ExtIdle

\* parser.py 188-193: chain.invoke raises
OldParseRaises ==
    /\ pc = "idle"
    /\ \E similar_events \in SimilarEvents :
          /\ examples' = old_get_examples(similar_events)
          /\ invocations' = <<[examples |-> old_get_examples(similar_events),
                               corrections |-> <<>>, step |-> 0, result |-> None]>>
    /\ report' = Some(ParserReport(0))
    /\ exception' = Some("BackendError")
    /\ searches' = searches + 1
    /\ calls' = calls + 1
    /\ pc' = "raised"
    /\ UNCHANGED <<self_reflection_steps, current_step, corrections, uuid, eg, output_graph,
                   gpc, envVars, frameVars, extVars, runVars>>

\* parser.py 177-239: one whole parse call
OldParse ==
    /\ pc = "idle"
    /\ \E similar_events \in SimilarEvents : \E raw_schema \in OldResponses :
          /\ examples' = old_get_examples(similar_events)
          /\ invocations' = <<[examples |-> old_get_examples(similar_events),
                               corrections |-> <<>>, step |-> 0, result |-> Some(raw_schema)]>>
          /\ report' = Some(OldOutcome(ParserReport(0), raw_schema, 1))
    /\ searches' = searches + 1
    /\ calls' = calls + 1
    /\ pc' = "done"
    /\ UNCHANGED <<self_reflection_steps, current_step, corrections, exception, uuid, eg,
                   output_graph, gpc, envVars, frameVars, extVars, runVars>>

NextOld == OldParseRaises \/ OldParse

SpecOld == InitOld /\ [][NextOld]_vars

(***************************************************************************)
(* The store modules (src/lkgb/store): Driver, Ontology and Dataset share  *)
(* one database; each has initialize and clear, Dataset also               *)
(* add_event_graph.  The Parser is built and idle.                         *)
(***************************************************************************)
MaxExperiments == 2

\* graphs as Parser.parse returns them
ParsedGraphs ==
    {ReassignIds(graph(c).value, 0) :
        c \in {d \in Candidates : ValidationErrors(d) = <<>> /\ graph(d).raised = None}}

InitStore ==
    /\ self_reflection_steps = 0
    /\ pc = "idle"
    /\ current_step = 0
    /\ examples = <<>>
    /\ corrections = <<>>
    /\ invocations = <<>>
    /\ report = None
    /\ exception = None
    /\ uuid = 0
    /\ eg = None
    /\ output_graph = None
    /\ gpc = "none"
    /\ ontology = LogOntology
    /\ supports_structured_output = TRUE
    /\ schema = Some(build_dynamic_model(LogOntology))
    /\ validation = None
    /\ calls = 0
    /\ searches = 0
    /\ FramesIdle
    /\ ExtIdle

\* driver.py 29-73: a changed ontology or examples hash raises ValueError,
\* otherwise a new Experiment node follows the latest one
DriverInitialize ==
    /\ \E cfg \in Configs :
          /\ config' = cfg
          /\ IF latest_experiment(db) # 0
                /\ \/ latest_experiment_node(db).details.ontology_hash # cfg.ontology_hash
                   \/ latest_experiment_node(db).details.examples_hash # cfg.examples_hash
             THEN /\ exception' = Some("ValueError")
                  /\ UNCHANGED db
             ELSE /\ latest_experiment(db) < MaxExperiments
                  /\ exception' = None
                  /\ db' = [db EXCEPT
                              !.nodes = @ \cup {ExperimentNode(latest_experiment(db) + 1, cfg)},
                              !.relationships = @ \cup
                                  IF latest_experiment(db) = 0 THEN {}
                                  ELSE {DbRel(ExperimentNode(latest_experiment(db) + 1, cfg),
                                              "SUBSEQUENT", latest_experiment_node(db))}]
    /\ UNCHANGED <<self_reflection_steps, pc, current_step, examples, corrections, invocations,
                   report, uuid, eg, output_graph, gpc, envVars, callVars, frameVars,
                   batch, lookup, tp>>

\* driver.py 80-82
DriverClear ==
    /\ db' = DetachDelete(db, {n \in db.nodes : "Experiment" \in n.labels})
    /\ UNCHANGED <<self_reflection_steps, pc, current_step, examples, corrections, invocations,
                   report, exception, uuid, eg, output_graph, gpc, envVars, callVars, frameVars,
                   batch, lookup, runVars>>

\* dataset.py 37-94: nothing is loaded when the examples are there; the rdf
\* import needs the n10s configuration that Ontology.initialize creates
\* first (store.py 22-25)
DatasetInitialize ==
    /\ \A n \in db.nodes : ~("Resource" \in n.labels /\ StartsWith(n.uri, LOG_EXAMPLES_URL))
    /\ GraphConfigNode \in db.nodes
    /\ db' = [db EXCEPT !.nodes = @ \cup DatasetDb,
                        !.relationships = @ \cup DatasetRels,
                        !.indexes = @ \cup {EVENTS_INDEX_NAME}]
    /\ UNCHANGED <<self_reflection_steps, pc, current_step, examples, corrections, invocations,
                   report, exception, uuid, eg, output_graph, gpc, envVars, callVars, frameVars,
                   batch, lookup, runVars>>

\* dataset.py 96-112: the index, the examples and the tests, and then every
\* node of the database (111-112), the ontology with them
DatasetClear ==
    /\ db' = [DetachDelete(DetachDelete(db, {n \in db.nodes :
                                               /\ "Resource" \in n.labels
                                               /\ \/ StartsWith(n.uri, LOG_EXAMPLES_URL)
                                                  \/ StartsWith(n.uri, LOG_TESTS_URL)}),
                            db.nodes)
                EXCEPT !.indexes = @ \ {EVENTS_INDEX_NAME}]
    /\ ontology' = EmptyOntology
    /\ UNCHANGED <<self_reflection_steps, pc, current_step, examples, corrections, invocations,
                   report, exception, uuid, eg, output_graph, gpc,
                   supports_structured_output, schema, validation, callVars, frameVars,
                   batch, lookup, runVars>>

\* dataset.py 137-171
DatasetAddEventGraph ==
    /\ \E g \in ParsedGraphs :
          \E added \in add_event_graph_outcomes(db, g, latest_experiment(db)) :
             /\ db' = added.db
             /\ exception' = added.raised
    /\ UNCHANGED <<self_reflection_steps, pc, current_step, examples, corrections, invocations,
                   report, uuid, eg, output_graph, gpc, envVars, callVars, frameVars,
                   batch, lookup, runVars>>

NextStore ==
    \/ DriverInitialize
    \/ DriverClear
    \/ OntologyInitialize
    \/ OntologyClear
    \/ DatasetInitialize
    \/ DatasetClear
    \/ DatasetAddEventGraph

SpecStore == InitStore /\ [][NextStore]_vars

(***************************************************************************)
(* fetch_ip_address_info (src/lkgb/tools.py): one HTTP lookup.  The input  *)
(* is the address and what the HTTP request does: no response at all       *)
(* (connection error, timeout) or a response with a status and a body.     *)
(***************************************************************************)
TOO_MANY_REQUESTS == 429

Statuses == {200, 400, 404, TOO_MANY_REQUESTS, 500}

\* a body is JSON or not; a JSON body may carry the keys error and reason
\* and may carry all the fields of IPAddressInfo
HttpOutcomes ==
    {[ip |-> ip, exc |-> Some(e), status |-> 0, json |-> FALSE, error |-> None,
      reason |-> None, info |-> FALSE] :
        ip \in {"8.8.8.8", "::1"}, e \in {"ConnectionError", "Timeout"}}
    \cup {[ip |-> ip, exc |-> None, status |-> st, json |-> FALSE, error |-> None,
           reason |-> None, info |-> FALSE] :
             ip \in {"8.8.8.8", "::1"}, st \in Statuses}
    \cup {[ip |-> ip, exc |-> None, status |-> st, json |-> TRUE, error |-> er,
           reason |-> re, info |-> inf] :
             ip \in {"8.8.8.8", "::1"}, st \in Statuses,
             er \in {None, Some(TRUE), Some(FALSE)},
             re \in {None, Some("Reserved IP Address")},
             inf \in BOOLEAN}

Returned_(variant, error) == [raised |-> None, variant |-> variant, error |-> error]

Raised_(e) == [raised |-> Some(e), variant |-> "", error |-> ""]

RateLimitMsg == "Rate limit exceeded. Please do not send anymore requests for now."

FetchErrorMsg == "An error occurred while fetching the data. Please try again later."

\* tools.py 69-73: e.response is None when no response was received, and
\* None.status_code raises AttributeError inside the handler
HandleRequestException(has_response, status) ==
    IF ~has_response THEN {Raised_("AttributeError")}
    ELSE IF status = TOO_MANY_REQUESTS
         THEN {Returned_("IPAddressError", RateLimitMsg)}
         ELSE {Returned_("IPAddressError", FetchErrorMsg)}

\* tools.py 56-73: the outcomes of one call.  A body that is not JSON makes
\* response.json() raise: a RequestException without a response in recent
\* requests releases, a plain ValueError in older ones.  model_validate_json
\* is given the decoded dict, which pydantic rejects (ValidationError, or
\* TypeError depending on the release).
FetchOutcomes(h) ==
    IF h.exc # None THEN HandleRequestException(FALSE, 0)
    ELSE IF h.status >= 400 THEN HandleRequestException(TRUE, h.status)
    ELSE IF ~h.json THEN HandleRequestException(FALSE, 0) \cup {Raised_("JSONDecodeError")}
    ELSE IF h.error = None THEN {Raised_("KeyError")}
    ELSE IF h.error[1]
         THEN IF h.reason = None THEN {Raised_("KeyError")}
              ELSE {Returned_("IPAddressError", h.reason[1])}
         ELSE {Raised_("ValidationError"), Raised_("TypeError")}

InitTools ==
    /\ self_reflection_steps = 0
    /\ pc = "idle"
    /\ current_step = 0
    /\ examples = <<>>
    /\ corrections = <<>>
    /\ invocations = <<>>
    /\ report = None
    /\ exception = None
    /\ uuid = 0
    /\ eg = None
    /\ output_graph = None
    /\ gpc = "none"
    /\ ontology = LogOntology
    /\ supports_structured_output = TRUE
    /\ schema = Some(build_dynamic_model(LogOntology))
    /\ validation = None
    /\ calls = 0
    /\ searches = 0
    /\ FramesIdle
    /\ batch = NoBatch
    /\ db = StoreDb(ontology)
    /\ lookup \in {[pc |-> "idle", http |-> Some(h), result |-> None] : h \in HttpOutcomes}
    /\ RunIdle

\* tools.py 44-73
fetch_ip_address_info ==
    /\ lookup.pc = "idle"
    /\ \E out \in FetchOutcomes(lookup.http[1]) :
          lookup' = [lookup EXCEPT !.pc = "done", !.result = Some(out)]
    /\ UNCHANGED <<self_reflection_steps, pc, current_step, examples, corrections, invocations,
                   report, exception, uuid, eg, output_graph, gpc, envVars, callVars, frameVars,
                   batch, db, runVars>>

NextTools == fetch_ip_address_info

SpecTools == InitTools /\ [][NextTools]_vars

(***************************************************************************)
(* The batch driver (src/lkgb/__main__.py, parse): one parse call per test *)
(* event, the report appended to the list, a successful graph passed to    *)
(* Dataset.add_event_graph.  Dataset.tests returns TestEvent objects       *)
(* (dataset.py 16-22, 135), which the loop header cannot unpack; the       *)
(* header is written for (event, context, graph) triples.  Both kinds of   *)
(* items are inputs.                                                       *)
(***************************************************************************)
MaxEvents == 2

passes_to_storeNever(r) == FALSE

\* __main__.py 71-73
passes_to_store(r) == r.error = None /\ r.graph # None

InitBatch ==
    /\ self_reflection_steps = 0
    /\ pc = "idle"
    /\ current_step = 0
    /\ examples = <<>>
    /\ corrections = <<>>
    /\ invocations = <<>>
    /\ report = None
    /\ exception = None
    /\ uuid = 0
    /\ eg = None
    /\ output_graph = None
    /\ gpc = "none"
    /\ ontology = LogOntology
    /\ supports_structured_output = TRUE
    /\ schema = Some(build_dynamic_model(LogOntology))
    /\ validation = None
    /\ calls = 0
    /\ searches = 0
    /\ FramesIdle
    /\ lookup = NoLookup
    /\ db = StoreDb(ontology)
    /\ batch \in {[NoBatch EXCEPT !.pc = "next", !.unpackable = u] : u \in BOOLEAN}
    /\ RunIdle

\* __main__.py 67-68: the next item is unpacked and parse is called
BatchNext ==
    /\ batch.pc = "next"
    /\ batch.event < MaxEvents
    /\ IF batch.unpackable
       THEN /\ ParseCall
            /\ batch' = [batch EXCEPT !.pc = "parsing", !.event = @ + 1]
       ELSE /\ exception' = Some("TypeError")
            /\ batch' = [batch EXCEPT !.pc = "raised"]
            /\ UNCHANGED <<self_reflection_steps, pc, current_step, examples, corrections,
                           invocations, report, uuid, eg, output_graph, gpc, envVars,
                           callVars, frameVars, lookup, db, runVars>>

\* __main__.py 69-78: parse has returned; the report is appended and a
\* successful graph is stored
BatchReport ==
    /\ batch.pc = "parsing"
    /\ pc = "done"
    /\ IF passes_to_store(report[1])
       THEN \E added \in add_event_graph_outcomes(db, report[1].graph[1], latest_experiment(db)) :
               /\ db' = added.db
               /\ exception' = added.raised
               /\ batch' = [batch EXCEPT
                               !.pc = IF added.raised = None THEN "next" ELSE "raised",
                               !.reports = Append(@, [event |-> batch.event, report |-> report[1]]),
                               !.passed = Append(@, batch.event)]
       ELSE /\ batch' = [batch EXCEPT
                            !.pc = "next",
                            !.reports = Append(@, [event |-> batch.event, report |-> report[1]])]
            /\ UNCHANGED <<db, exception>>
    /\ UNCHANGED <<self_reflection_steps, pc, current_step, examples, corrections, invocations,
                   report, uuid, eg, output_graph, gpc, envVars, callVars, frameVars, lookup, runVars>>

\* __main__.py 67, 80: the items are exhausted
BatchDone ==
    /\ batch.pc = "next"
    /\ batch.event = MaxEvents
    /\ batch' = [batch EXCEPT !.pc = "finished"]
    /\ UNCHANGED <<self_reflection_steps, pc, current_step, examples, corrections, invocations,
                   report, exception, uuid, eg, output_graph, gpc, envVars, callVars, frameVars,
                   lookup, db, runVars>>

NextBatch ==
    \/ BatchNext
    \/ InvokeRaises
    \/ AttemptNoRaw
    \/ AttemptNullRaw
    \/ AttemptCorrected
    \/ AttemptParsed
    \/ LoopExit
    \/ BatchReport
    \/ BatchDone

SpecBatch == InitBatch /\ [][NextBatch]_vars

(***************************************************************************)
(* EventsStore (src/lkgb/store.py), the earlier single-class store.  The   *)
(* inputs of initialize are the database (as an earlier initialize with    *)
(* some configuration left it, or cleared) and the configuration given.    *)
(***************************************************************************)
EventsStoreConfigs ==
    {Config(o, e) : o \in {"sha-a", "sha-b", "sha-c"}, e \in {"sha-a", "sha-b", "sha-c"}}

EmptyDb == [nodes |-> {}, relationships |-> {}, indexes |-> {}, constraints |-> {}]

\* store.py 74-136: what the first initialize leaves in an empty database
EventsStoreDb(details) ==
    [nodes |-> {ExperimentNode(1, details), GraphConfigNode,
                DbNode({"Resource", "Class"}, Uri(TIME_ONTOLOGY_URL, "Instant"), 0),
                DbNode({"Resource", "Class"}, Uri("http://example.com/logs/dictionary", "Event"), 0),
                DbNode({"Resource", "Event"}, Uri("http://example.com/logs/examples", "event1"), 0)},
     relationships |-> {},
     indexes |-> {EVENTS_INDEX_NAME},
     constraints |-> {N10S_CONSTRAINT_NAME}]

OntologyChanged == "ValueError: The ontology has changed since the last experiment."

ExamplesChanged == "ValueError: The examples have changed since the last experiment."

\* store.py 47-56: the columns of the row of the latest experiment
latest_experiment_row == {"id", "experiment_date_time", "ontology", "examples_hash"}

\* store.py 57-64: row["ontology_hash"] is read first; a key that is not a
\* column raises KeyError.  The two tests are written with ==.
EventsStoreCheck(details, config_dict) ==
    IF "ontology_hash" \notin latest_experiment_row THEN Some("KeyError: ontology_hash")
    ELSE IF details.ontology_hash = config_dict.ontology_hash THEN Some(OntologyChanged)
    ELSE IF "examples_hash" \notin latest_experiment_row THEN Some("KeyError: examples_hash")
    ELSE IF details.examples_hash = config_dict.examples_hash THEN Some(ExamplesChanged)
    ELSE None

InitEventsStore ==
    /\ self_reflection_steps = 0
    /\ pc = "idle"
    /\ current_step = 0
    /\ examples = <<>>
    /\ corrections = <<>>
    /\ invocations = <<>>
    /\ report = None
    /\ exception = None
    /\ uuid = 0
    /\ eg = None
    /\ output_graph = None
    /\ gpc = "none"
    /\ ontology = LogOntology
    /\ supports_structured_output = TRUE
    /\ schema = None
    /\ validation = None
    /\ calls = 0
    /\ searches = 0
    /\ FramesIdle
    /\ batch = NoBatch
    /\ lookup = NoLookup
    /\ tp = NoTemplateParser
    /\ config \in EventsStoreConfigs
    /\ db \in {EventsStoreDb(d) : d \in EventsStoreConfigs}

\* store.py 37-136
EventsStoreInitialize ==
    /\ \E config_dict \in EventsStoreConfigs :
          /\ config' = config_dict
          /\ IF \E n \in db.nodes : "Experiment" \in n.labels
             THEN /\ exception' = EventsStoreCheck(latest_experiment_node(db).details, config_dict)
                  /\ UNCHANGED db
             ELSE /\ exception' = None
                  /\ db' = IF GraphConfigNode \in db.nodes
                           THEN [db EXCEPT !.nodes = @ \cup {ExperimentNode(1, config_dict)}]
                           ELSE EventsStoreDb(config_dict)
    /\ UNCHANGED <<self_reflection_steps, pc, current_step, examples, corrections, invocations,
                   report, uuid, eg, output_graph, gpc, envVars, callVars, frameVars,
                   batch, lookup, tp>>

\* store.py 138-142
EventsStoreClear ==
    /\ db' = EmptyDb
    /\ exception' = None
    /\ UNCHANGED <<self_reflection_steps, pc, current_step, examples, corrections, invocations,
                   report, uuid, eg, output_graph, gpc, envVars, callVars, frameVars,
                   batch, lookup, runVars>>

NextEventsStore == EventsStoreInitialize \/ EventsStoreClear

SpecEventsStore == InitEventsStore /\ [][NextEventsStore]_vars

(***************************************************************************)
(* The template parsers (src/parser and src/rov_parser).  A log is a       *)
(* sequence of words; an output of the chain is a sequence of words, "<*>" *)
(* placeholders, quotes, blanks, \\boxed{ ... } and "(", a character that   *)
(* makes the pattern invalid.                                              *)
(***************************************************************************)
\* the most documents a similarity search returns
MaxHits == 2

Logs == {<<"a", "b">>, <<"a", "a">>}

\* __main__.py 168-173: the logs of the test file, processed in order
Datasets == {<<l1, l2>> : l1 \in Logs, l2 \in Logs} \ {<<<<"a", "a">>, <<"a", "a">>>>}

TemplateOutputs ==
    {<<"a", "<*>">>,
     <<" ", "'", "a", "<*>", "'">>,
     <<"think", "\\boxed{", "a", "<*>", "}">>,
     <<"a", "b">>,
     <<"(", "a">>}

\* str.strip()
RECURSIVE lstrip(_)
lstrip(t) == IF t # <<>> /\ Head(t) = " " THEN lstrip(Tail(t)) ELSE t

RECURSIVE rstrip(_)
rstrip(t) == IF t # <<>> /\ t[Len(t)] = " " THEN rstrip(SubSeq(t, 1, Len(t) - 1)) ELSE t

strip(t) == rstrip(lstrip(t))

\* str.removeprefix("'").removesuffix("'")
remove_quotes(t) ==
    LET p == IF t # <<>> /\ Head(t) = "'" THEN Tail(t) ELSE t
    IN  IF p # <<>> /\ p[Len(p)] = "'" THEN SubSeq(p, 1, Len(p) - 1) ELSE p

\* str.replace("<*>", "(.*?)")
replace_placeholders(t) == [i \in 1..Len(t) |-> IF t[i] = "<*>" THEN "(.*?)" ELSE t[i]]

\* re.search(r"\\boxed{(.*?)}", template): the first \boxed{ that is closed,
\* up to the first } after it
boxed(t) ==
    LET opens == {i \in 1..Len(t) : t[i] = "\\boxed{" /\ \E j \in (i + 1)..Len(t) : t[j] = "}"}
        i == CHOOSE k \in opens : \A m \in opens : k <= m
        j == CHOOSE k \in (i + 1)..Len(t) : t[k] = "}" /\ \A m \in (i + 1)..(k - 1) : t[m] # "}"
    IN  IF opens = {} THEN None ELSE Some(SubSeq(t, i + 1, j - 1))

\* src/parser/__main__.py 39-60
template_to_regex(template) == strip(remove_quotes(strip(replace_placeholders(template))))

\* src/rov_parser/parser.py 55-81
rov_template_to_regex(template) ==
    template_to_regex(IF boxed(template) # None THEN boxed(template)[1] ELSE template)

\* the words of a log that a pattern can match from the start of the log
RECURSIVE matches(_, _)
matches(regex, log) ==
    IF regex = <<>> THEN TRUE
    ELSE IF Head(regex) = "(.*?)"
         THEN \E k \in 0..Len(log) : matches(Tail(regex), SubSeq(log, k + 1, Len(log)))
         ELSE log # <<>> /\ Head(log) = Head(regex) /\ matches(Tail(regex), Tail(log))

\* re.match(template, log): a match, None, re.error for a pattern that does
\* not compile, TypeError for a pattern that is None
re_match(template, log) ==
    IF template = None THEN "TypeError"
    ELSE IF "(" \in Range(template[1]) THEN "re.error"
    ELSE IF matches(template[1], log) THEN "match"
    ELSE "None"

\* parser.py 84-99 (and src/parser/__main__.py 63-78)
check_template_match(log, template) ==
    CASE re_match(template, log) = "match" -> "True"
      [] re_match(template, log) = "None" -> "False"
      [] re_match(template, log) = "re.error" -> "False"
      [] OTHER -> re_match(template, log)

\* src/parser/__main__.py 81-96
RECURSIVE check_all_templates_match(_, _)
check_all_templates_match(log, templates) ==
    IF templates = <<>> THEN "True"
    ELSE CASE re_match(Head(templates), log) = "match" -> check_all_templates_match(log, Tail(templates))
           [] re_match(Head(templates), log) = "None" -> "False"
           [] re_match(Head(templates), log) = "re.error" -> "False"
           [] OTHER -> re_match(Head(templates), log)

\* a document of the vector store: page content and metadata["template"]
Document(log, template) == [log |-> log, template |-> template]

\* the vector stores a parser starts with; "" is the template of a log
\* that was loaded without one
VectorStores ==
    {<<>>,
     <<Document(<<"a", "b">>, Some(<<"a", "b">>)), Document(<<"a", "a">>, Some(<<>>))>>,
     <<Document(<<"a", "a">>, Some(<<"a", "(.*?)">>)), Document(<<"a", "b">>, Some(<<"a", "(.*?)">>))>>}

\* vector_store.py 100-120: the documents found for a log, most relevant
\* first, at most MaxHits of them
similarity_search(store) ==
    {r \in UNION {[1..n -> DOMAIN store] : n \in 0..MaxHits} :
        \A i \in DOMAIN r : \A j \in DOMAIN r : i # j => r[i] # r[j]}

\* vector_store.py 77-98: those of the first n (relevance 0.7 and more)
\* that have a template
RECURSIVE find_very_similar_logs_with_template(_, _, _)
find_very_similar_logs_with_template(store, found, n) ==
    IF n = 0 THEN <<>>
    ELSE LET rest == find_very_similar_logs_with_template(store, found, n - 1)
         IN  IF store[found[n]].template # Some(<<>>) THEN Append(rest, found[n]) ELSE rest

templates_of(store, found) == [i \in DOMAIN found |-> store[found[i]].template]

\* the locals of a call that begins
Call(t, found, n) ==
    [t EXCEPT !.position = @ + 1, !.log = t.logs[t.position + 1],
              !.very_similar = find_very_similar_logs_with_template(t.store, found, n),
              !.similar = <<>>, !.path = "none", !.countdown = 0, !.invoked = 0,
              !.messages = <<>>, !.generated = None, !.template_regex = None,
              !.updated = {}, !.raised = None, !.before = t.store,
              !.history_len = Len(t.history)]

Raised(t, error) == [t EXCEPT !.pc = "raised", !.raised = Some(error)]

update_similarAll(t, template_regex) ==
    [t EXCEPT !.store = [i \in DOMAIN t.store |->
                            IF i \in Range(t.similar)
                            THEN Document(t.store[i].log, template_regex) ELSE t.store[i]],
              !.updated = Range(t.similar)]

\* __main__.py 157-162, parser.py 185-190
update_similar(t, template_regex) ==
    [t EXCEPT !.store = [i \in DOMAIN t.store |->
                            IF i \in Range(t.similar)
                            THEN Document(t.store[i].log, template_regex) ELSE t.store[i]],
              !.updated = {i \in Range(t.similar) : t.store[i].template # template_regex}]

\* __main__.py 156-165: what follows the loop
save_template(t, template_regex) ==
    LET u == update_similar(t, template_regex)
    IN  [u EXCEPT !.pc = "returned", !.template_regex = template_regex,
                  !.store = Append(@, Document(t.log, template_regex))]

InitTemplate ==
    /\ self_reflection_steps \in 0..MaxSteps
    /\ pc = "idle"
    /\ current_step = 0
    /\ examples = <<>>
    /\ corrections = <<>>
    /\ invocations = <<>>
    /\ report = None
    /\ exception = None
    /\ uuid = 0
    /\ eg = None
    /\ output_graph = None
    /\ gpc = "none"
    /\ ontology = LogOntology
    /\ supports_structured_output = TRUE
    /\ schema = None
    /\ validation = None
    /\ calls = 0
    /\ searches = 0
    /\ FramesIdle
    /\ batch = NoBatch
    /\ lookup = NoLookup
    /\ db = StoreDb(ontology)
    /\ config = DefaultConfig
    /\ tp \in {TemplateParser(logs, store, quality) :
                  logs \in Datasets, store \in VectorStores, quality \in {1, MaxHits}}

\* __main__.py 99-134: compute_template up to the loop
TemplateStart ==
    /\ tp.pc \in {"idle", "returned"}
    /\ tp.position < Len(tp.logs)
    /\ \E found \in similarity_search(tp.store) : \E n \in 0..Len(found) :
          LET t == Call(tp, found, n)
              memory == IF Len(t.very_similar) >= t.memory_match_min_quality
                        THEN check_all_templates_match(t.log, templates_of(t.store, t.very_similar))
                        ELSE "False"
              g == [t EXCEPT !.path = "generation", !.similar = found,
                             !.countdown = self_reflection_steps]
          IN  tp' = IF memory = "True"
                    THEN [t EXCEPT !.pc = "returned", !.path = "memory",
                                   !.store = Append(@, Document(t.log, t.store[t.very_similar[1]].template))]
                    ELSE IF memory # "False" THEN Raised(t, memory)
                    ELSE IF g.countdown > 0 THEN [g EXCEPT !.pc = "loop"]
                    ELSE Raised(g, "UnboundLocalError")
    /\ UNCHANGED <<self_reflection_steps, pc, current_step, examples, corrections, invocations,
                   report, exception, uuid, eg, output_graph, gpc, envVars, callVars, frameVars,
                   extVars, config>>

\* __main__.py 136-165: one pass of the loop, and what follows the loop
\* when this pass leaves it.  The continue of the inner loop (151-152)
\* goes on with the next similar log, so that loop changes nothing.
TemplateInvoke ==
    /\ tp.pc = "loop"
    /\ \E template \in TemplateOutputs :
          LET template_regex == Some(template_to_regex(template))
              t == [tp EXCEPT !.countdown = @ - 1, !.invoked = @ + 1,
                              !.generated = template_regex, !.template_regex = template_regex]
          IN  tp' = IF check_template_match(t.log, template_regex) = "False" /\ t.countdown > 0
                    THEN t
                    ELSE save_template(t, template_regex)
    /\ UNCHANGED <<self_reflection_steps, pc, current_step, examples, corrections, invocations,
                   report, exception, uuid, eg, output_graph, gpc, envVars, callVars, frameVars,
                   extVars, config>>

NextTemplate == TemplateStart \/ TemplateInvoke

SpecTemplate == InitTemplate /\ [][NextTemplate]_vars

(***************************************************************************)
(* rov_parser Parser: one object, compute_template called for one log      *)
(* after the other, also after a call that raised.                         *)
(***************************************************************************)
\* a message of the history: the logs given to an invocation ("input") and
\* its output ("ai"), as RunnableWithMessageHistory appends them, and the
\* corrections of parser.py 176-178
Message(kind, text) == [kind |-> kind, text |-> text]

session_historyFresh(t) == <<>>

\* parser.py 110, 121-126: the history object given to every invocation
session_history(t) == t.history

\* parser.py 155
all_logs(t) == <<t.log>> \o [i \in DOMAIN t.similar |-> t.store[t.similar[i]].log]

\* parser.py 173-179: the continue goes on with the next log
RECURSIVE check_all_logs(_, _, _)
check_all_logs(t, logs, i) ==
    IF i > Len(logs) THEN t
    ELSE CASE check_template_match(logs[i], t.template_regex) = "True" ->
                check_all_logs(t, logs, i + 1)
           [] check_template_match(logs[i], t.template_regex) = "False" ->
                check_all_logs([t EXCEPT !.template_regex = None,
                                         !.history = Append(@, Message("correction", logs[i]))],
                               logs, i + 1)
           [] OTHER -> Raised(t, check_template_match(logs[i], t.template_regex))

\* vector_store.py 122-139: the list given to add_documents holds a tuple,
\* not a Document
add_document(t, template) == Raised(t, "AttributeError")

InitRov ==
    /\ self_reflection_steps \in 1..MaxSteps
    /\ pc = "idle"
    /\ current_step = 0
    /\ examples = <<>>
    /\ corrections = <<>>
    /\ invocations = <<>>
    /\ report = None
    /\ exception = None
    /\ uuid = 0
    /\ eg = None
    /\ output_graph = None
    /\ gpc = "none"
    /\ ontology = LogOntology
    /\ supports_structured_output = TRUE
    /\ schema = None
    /\ validation = None
    /\ calls = 0
    /\ searches = 0
    /\ FramesIdle
    /\ batch = NoBatch
    /\ lookup = NoLookup
    /\ db = StoreDb(ontology)
    /\ config = DefaultConfig
    /\ tp \in {TemplateParser(logs, store, quality) :
                  logs \in Datasets, store \in VectorStores, quality \in {1, MaxHits}}

\* parser.py 128-159: compute_template up to the loop.  The method
\* __check_all_templates_match is looked up as _Parser__check_all_templates_match,
\* which the class does not have.
RovStart ==
    /\ tp.pc \in {"idle", "returned", "raised"}
    /\ tp.position < Len(tp.logs)
    /\ \E found \in similarity_search(tp.store) : \E n \in 0..Len(found) :
          LET t == Call(tp, found, n)
          IN  tp' = IF Len(t.very_similar) >= t.memory_match_min_quality
                    THEN Raised(t, "AttributeError")
                    ELSE [t EXCEPT !.pc = "loop", !.path = "generation", !.similar = found,
                                   !.countdown = self_reflection_steps]
    /\ UNCHANGED <<self_reflection_steps, pc, current_step, examples, corrections, invocations,
                   report, exception, uuid, eg, output_graph, gpc, envVars, callVars, frameVars,
                   extVars, config>>

\* parser.py 161-193: the pass of the loop, which always ends at the break
\* of line 182, and what follows the loop
RovInvoke ==
    /\ tp.pc = "loop"
    /\ tp.countdown > 0
    /\ \E template \in TemplateOutputs :
          LET template_regex == Some(rov_template_to_regex(template))
              t == [tp EXCEPT !.countdown = @ - 1, !.invoked = @ + 1,
                              !.messages = session_history(tp),
                              !.history = session_history(tp)
                                  \o [i \in DOMAIN all_logs(tp) |-> Message("input", all_logs(tp)[i])]
                                  \o <<Message("ai", template)>>,
                              !.generated = template_regex, !.template_regex = template_regex]
              c == check_all_logs(t, all_logs(t), 1)
          IN  tp' = IF c.raised # None THEN c
                    ELSE add_document(update_similar(c, c.template_regex), c.template_regex)
    /\ UNCHANGED <<self_reflection_steps, pc, current_step, examples, corrections, invocations,
                   report, exception, uuid, eg, output_graph, gpc, envVars, callVars, frameVars,
                   extVars, config>>

NextRov == RovStart \/ RovInvoke

SpecRov == InitRov /\ [][NextRov]_vars

(***************************************************************************)
(* Vocabulary of the properties                                            *)
(***************************************************************************)
Terminated == pc \in {"done", "raised"}

IsSuccess == pc = "done" /\ report # None /\ report[1].graph # None

IsFailure == pc = "done" /\ report # None /\ report[1].error # None /\ report[1].graph = None

Calls == 1..Len(invocations)

\* the invocation returned a response (it did not raise)
Returned(i) == invocations[i].result # None

\* the response carries tool-call arguments for DynamicEventGraph
HasArgs(i) ==
    /\ Returned(i)
    /\ invocations[i].result[1].raw # None
    /\ invocations[i].result[1].raw[1].tool_calls # <<>>

Args(i) == invocations[i].result[1].raw[1].tool_calls[1].args

NodeIds(g) == {g.nodes[i].id : i \in 1..Len(g.nodes)}

\* the node types of the ontology and the property keys of each
OntologyTypes == {n.type : n \in ontology.nodes}

OntologyKeys(t) == UNION {n.properties : n \in {m \in ontology.nodes : m.type = t}} \cup {"uri"}

\* only node, property and relationship types of the ontology
UsesOntologyTypes(g) ==
    /\ \A i \in 1..Len(g.nodes) :
          /\ g.nodes[i].type \in OntologyTypes
          /\ g.nodes[i].properties # None =>
                \A j \in 1..Len(g.nodes[i].properties[1]) :
                    g.nodes[i].properties[1][j].type \in OntologyKeys(g.nodes[i].type)
    /\ \A i \in 1..Len(g.relationships) :
          \E r \in ontology.relationships : r.type = g.relationships[i].type

\* every relationship endpoint is the id of a node of the same response
EndpointsPresent(g) ==
    \A i \in 1..Len(g.relationships) :
        g.relationships[i].source_id \in NodeIds(g) /\ g.relationships[i].target_id \in NodeIds(g)

FullyValid(i) == HasArgs(i) /\ UsesOntologyTypes(Args(i)) /\ EndpointsPresent(Args(i))

Dangling(i) == HasArgs(i) /\ ~EndpointsPresent(Args(i))

\* no parsed output and no raw assistant output (raw absent or null)
NoOutput(i) ==
    /\ Returned(i)
    /\ invocations[i].result[1].parsed = None
    /\ (~invocations[i].result[1].has_raw \/ invocations[i].result[1].raw = None)

SchemaViolating(i) == Returned(i) /\ invocations[i].result[1].parsing_error # None

\* the corrections in force after invocation i
CorrectionsAfter(i) ==
    IF i < Len(invocations) THEN invocations[i + 1].corrections ELSE corrections

(***************************************************************************)
(* C1: one parse call invokes the chain at most self_reflection_steps + 1  *)
(* times, and exactly once when self_reflection_steps = 0, whatever the    *)
(* outcome of that invocation.                                             *)
(***************************************************************************)
C1_AttemptBound ==
    /\ Len(invocations) <= self_reflection_steps + 1
    /\ (self_reflection_steps = 0 /\ Terminated) => Len(invocations) = 1

C1_Witness ==
    /\ IsFailure
    /\ self_reflection_steps >= 2
    /\ Len(invocations) = self_reflection_steps + 1

(***************************************************************************)
(* C2: a response that uses only ontology types and whose relationships    *)
(* all point to nodes of the same response passes validation: parse        *)
(* returns Success on that attempt, with those nodes and relationships.    *)
(***************************************************************************)
C2_ValidResponseSucceeds ==
    \A i \in Calls :
        FullyValid(i) =>
            /\ i = Len(invocations)
            /\ IsSuccess
            /\ Len(report[1].graph[1].nodes) = Cardinality(NodeIds(Args(i)))
            /\ Len(report[1].graph[1].relationships) = Len(Args(i).relationships)

(***************************************************************************)
(* C3: if every attempt returns no parsed output and no raw output (raw    *)
(* absent or null), parse does not raise and returns a Failure report      *)
(* after self_reflection_steps + 1 invocations.                            *)
(***************************************************************************)
C3_NoOutputNeverThrows ==
    (\A i \in Calls : NoOutput(i)) =>
        /\ pc # "raised"
        /\ pc = "done" => (IsFailure /\ Len(invocations) = self_reflection_steps + 1)

(***************************************************************************)
(* C4 (as stated): when every attempt is schema-violating, parse makes     *)
(* self_reflection_steps + 1 calls and returns a Failure whose error       *)
(* retains the validation error of the last attempt.                       *)
(***************************************************************************)
C4_LastErrorRetained ==
    (pc = "done" /\ \A i \in Calls : SchemaViolating(i)) =>
        /\ Len(invocations) = self_reflection_steps + 1
        /\ IsFailure
        /\ report[1].error[1].errors = invocations[Len(invocations)].result[1].parsing_error[1]

(***************************************************************************)
(* C4 (amended): when every attempt is schema-violating, parse makes       *)
(* self_reflection_steps + 1 calls and returns a Failure whose error is    *)
(* the fixed message "No valid output was produced within the              *)
(* self-reflection steps."; the last validation error is kept only in the  *)
(* last correction of the transcript.                                      *)
(***************************************************************************)
C4_FixedFailureMessage ==
    (pc = "done" /\ \A i \in Calls : SchemaViolating(i)) =>
        /\ Len(invocations) = self_reflection_steps + 1
        /\ IsFailure
        /\ report[1].error = Some(NoValidOutput)
        /\ report[1].error[1].errors = <<>>
        /\ corrections[Len(corrections)].errors =
              CorrectionErrors(invocations[Len(invocations)].result[1].parsing_error[1])

C4_Witness ==
    /\ pc = "done"
    /\ self_reflection_steps = 2
    /\ Len(invocations) = 3
    /\ \A i \in Calls : SchemaViolating(i)

(***************************************************************************)
(* C5: a response with a relationship endpoint that is no node of the      *)
(* response never aborts parse and is never returned as a graph: it        *)
(* appends a correction and consumes one attempt; with                     *)
(* self_reflection_steps = 1, a dangling first response followed by a      *)
(* fully valid second response gives 2 calls and a Success report.         *)
(***************************************************************************)
C5_DanglingRetried ==
    /\ \A i \in Calls :
          Dangling(i) =>
              /\ ~(i = Len(invocations) /\ pc = "raised")
              /\ ~(i = Len(invocations) /\ IsSuccess)
              /\ IsPrefix(invocations[i].corrections, CorrectionsAfter(i))
              /\ Len(CorrectionsAfter(i)) > Len(invocations[i].corrections)
              /\ i < Len(invocations) => invocations[i + 1].step = invocations[i].step + 1
    /\ (/\ self_reflection_steps = 1
        /\ Len(invocations) = 2
        /\ Dangling(1)
        /\ FullyValid(2)) => IsSuccess

(***************************************************************************)
(* C6: in every graph attached to a Success report and every graph         *)
(* returned by EventGraph.graph, the source and the target of each         *)
(* relationship are nodes of the graph, before and after the ids are       *)
(* reassigned; a relationship naming a missing node id makes assembly      *)
(* fail, it is never dropped.                                              *)
(***************************************************************************)
RefIntegrity(g) ==
    \A i \in 1..Len(g.relationships) :
        /\ g.relationships[i].source \in Range(g.nodes)
        /\ g.relationships[i].target \in Range(g.nodes)
        /\ g.relationships[i].source \in DOMAIN g.heap
        /\ g.relationships[i].target \in DOMAIN g.heap

C6_ReferentialIntegrity ==
    /\ IsSuccess => RefIntegrity(report[1].graph[1])
    /\ output_graph # None =>
          /\ RefIntegrity(output_graph[1])
          /\ EndpointsPresent(eg[1])
          /\ Len(output_graph[1].relationships) = Len(eg[1].relationships)
    /\ (gpc = "built") =>
          \A i \in 1..Len(eg[1].relationships) :
              /\ output_graph[1].heap[output_graph[1].relationships[i].source].id
                    = eg[1].relationships[i].source_id
              /\ output_graph[1].heap[output_graph[1].relationships[i].target].id
                    = eg[1].relationships[i].target_id
    /\ (gpc \notin {"none", "given"} /\ ~EndpointsPresent(eg[1])) =>
          (gpc = "raised" /\ output_graph = None)

C6_Witness ==
    /\ gpc = "reassigned"
    /\ Len(eg[1].nodes) = 2
    /\ eg[1].nodes[1].id = eg[1].nodes[2].id
    /\ Len(output_graph[1].relationships) >= 1

(***************************************************************************)
(* C7: in every graph attached to a Success report each node's 'uri'       *)
(* property equals the node's final id, the final ids are pairwise         *)
(* distinct and no node keeps an id chosen by the LLM.                     *)
(***************************************************************************)
IdsReassigned(g, llm_ids) ==
    /\ \A o \in Range(g.nodes) :
          /\ "uri" \in DOMAIN g.heap[o].properties
          /\ g.heap[o].properties["uri"] = g.heap[o].id
          /\ g.heap[o].id \notin llm_ids
    /\ \A i, j \in 1..Len(g.nodes) :
          i # j => g.heap[g.nodes[i]].id # g.heap[g.nodes[j]].id

C7_IdReassignment ==
    IsSuccess =>
        IdsReassigned(report[1].graph[1], NodeIds(Args(Len(invocations))))

C7_Witness ==
    /\ IsSuccess
    /\ Len(report[1].graph[1].nodes) = 2
    /\ \E j \in 1..Len(Args(Len(invocations)).nodes[2].properties[1]) :
          Args(Len(invocations)).nodes[2].properties[1][j].type = "uri"

(***************************************************************************)
(* C8 (as stated): for every attempt after the first, the corrections      *)
(* passed to the chain strictly extend those of the previous attempt, by   *)
(* one new correction.                                                     *)
(***************************************************************************)
HumanCount(cs) == Cardinality({i \in 1..Len(cs) : cs[i].type = "human"})

C8_StrictExtension ==
    \A k \in Calls :
        k > 1 =>
            /\ IsPrefix(invocations[k - 1].corrections, invocations[k].corrections)
            /\ Len(invocations[k].corrections) > Len(invocations[k - 1].corrections)
            /\ HumanCount(invocations[k].corrections)
                  = HumanCount(invocations[k - 1].corrections) + 1

(***************************************************************************)
(* C8 (amended): for every attempt after the first, the corrections of the *)
(* previous attempt are a prefix of the corrections passed to the chain:   *)
(* they are extended by the cleaned assistant message and one correction   *)
(* message when the previous attempt had raw output, and are unchanged     *)
(* when the previous attempt had no raw output.                            *)
(***************************************************************************)
C8_PrefixExtension ==
    \A k \in Calls :
        k > 1 =>
            LET prev == invocations[k - 1].corrections
                cur == invocations[k].corrections
            IN /\ IsPrefix(prev, cur)
               /\ IF invocations[k - 1].result[1].has_raw
                  THEN /\ Len(cur) = Len(prev) + 2
                       /\ cur[Len(prev) + 1].type = "ai"
                       /\ cur[Len(prev) + 2].type = "human"
                  ELSE cur = prev

C8_Witness ==
    /\ Len(invocations) >= 3
    /\ invocations[1].result[1].has_raw
    /\ ~invocations[2].result[1].has_raw
    /\ invocations[3].corrections = invocations[2].corrections
    /\ Len(invocations[3].corrections) = 2

(***************************************************************************)
(* C9: the transcript is append-only and ordered by attempt: the           *)
(* corrections seen by attempt k are exactly those produced by the failed  *)
(* attempts before it, in attempt order.                                   *)
(***************************************************************************)
Produced(i) ==
    IF Returned(i) /\ invocations[i].result[1].parsed = None /\ invocations[i].result[1].raw # None
    THEN <<CleanedAnswer(invocations[i].result[1].raw[1]),
           CorrectionMessage(invocations[i].result[1])>>
    ELSE <<>>

ProducedBefore(k) == Flatten([j \in 1..(k - 1) |-> Produced(j)])

C9_TranscriptOrdered ==
    /\ \A k \in Calls : invocations[k].corrections = ProducedBefore(k)
    /\ pc \in {"loop", "done"} => corrections = ProducedBefore(Len(invocations) + 1)

C9_Witness ==
    /\ Len(invocations) = 3
    /\ Len(invocations[3].corrections) = 4
    /\ invocations[3].corrections[1] # invocations[3].corrections[3]
    /\ invocations[3].corrections[2] # invocations[3].corrections[4]

(***************************************************************************)
(* C10: if the backend invocation raises during an attempt, parse does     *)
(* not propagate the exception: the attempt is consumed without a          *)
(* correction and the call still returns a report.                         *)
(***************************************************************************)
C10_BackendErrorContained ==
    \A i \in Calls :
        ~Returned(i) =>
            /\ pc # "raised"
            /\ exception = None
            /\ CorrectionsAfter(i) = invocations[i].corrections

(***************************************************************************)
(* C11: a node of type T is accepted only if each of its property keys     *)
(* belongs to T's own allowed set (the ontology properties of T plus       *)
(* 'uri'); a key allowed only for another node type is rejected.           *)
(***************************************************************************)
Accepted == gpc = "validated" /\ validation = Some(<<>>)

C11_SchemaClosure ==
    Accepted =>
        \A i \in 1..Len(eg[1].nodes) :
            eg[1].nodes[i].properties # None =>
                \A j \in 1..Len(eg[1].nodes[i].properties[1]) :
                    eg[1].nodes[i].properties[1][j].type \in OntologyKeys(eg[1].nodes[i].type)

(***************************************************************************)
(* C12: a response with a relationship whose (source type, type, target    *)
(* type) is not a valid triple of the ontology is rejected as a validation *)
(* error that consumes one attempt and produces a correction; no such      *)
(* relationship is in a graph attached to a Success report.                *)
(***************************************************************************)
OntologyTriples == {<<r.source, r.type, r.target>> : r \in ontology.relationships}

\* the type of the node that an id of the response denotes (the last one)
TypeOfId(g, id) == g.nodes[DictLookup(g.nodes, id)].type

InvalidTriple(g, rel) ==
    /\ rel.source_id \in NodeIds(g)
    /\ rel.target_id \in NodeIds(g)
    /\ <<TypeOfId(g, rel.source_id), rel.type, TypeOfId(g, rel.target_id)>> \notin OntologyTriples

HasInvalidTriple(i) ==
    /\ HasArgs(i)
    /\ \E r \in 1..Len(Args(i).relationships) : InvalidTriple(Args(i), Args(i).relationships[r])

ErrorAt(loc) == \E e \in 1..Len(validation[1]) : validation[1][e].loc = loc

C13_ClosedTypes ==
    (gpc = "validated") =>
        /\ \A i \in 1..Len(eg[1].nodes) :
              eg[1].nodes[i].type \notin OntologyTypes =>
                  /\ ~Accepted
                  /\ ErrorAt(<<"nodes", ToString(i - 1), "type">>)
        /\ \A i \in 1..Len(eg[1].relationships) :
              (\A r \in ontology.relationships : r.type # eg[1].relationships[i].type) =>
                  /\ ~Accepted
                  /\ ErrorAt(<<"relationships", ToString(i - 1), "type">>)

C13_Witness ==
    /\ gpc = "validated"
    /\ ontology = LogOntology
    /\ Len(eg[1].nodes) = 2
    /\ eg[1].nodes[2].type = "Host"
    /\ Len(eg[1].relationships) = 1
    /\ eg[1].relationships[1].type = "hasHost"
    /\ Len(validation[1]) = 2

(***************************************************************************)
(* C14: when the ontology snapshot has no node types, building the schema  *)
(* and constructing the Parser fail with a configuration error: no Parser  *)
(* with an empty schema ever reaches parse.                                *)
(***************************************************************************)
C14_EmptyOntologyRejected == schema # None => schema[1].valid_node_types # {}

(***************************************************************************)
(* C15: when the backend does not support structured output, constructing  *)
(* the Parser raises ValueError: no chain (no schema) is built, no LLM     *)
(* invocation is ever made and nothing is retried.                         *)
(***************************************************************************)
C15_UnsupportedBackendRejected ==
    ~supports_structured_output =>
        /\ pc \in {"new", "config_error"}
        /\ schema = None
        /\ invocations = <<>>
        /\ calls = 0
        /\ searches = 0
        /\ report = None
        /\ (pc = "config_error") <=> (exception = Some("ValueError"))

C15_Witness == pc = "config_error" /\ exception = Some("ValueError") /\ ~supports_structured_output

(***************************************************************************)
(* C16: in one parse call the Example Retriever is queried exactly once,   *)
(* before the first LLM invocation, and every attempt of the call receives *)
(* the same demonstration messages.                                        *)
(***************************************************************************)
C16_ExamplesFetchedOnce ==
    /\ searches = calls
    /\ (invocations # <<>>) => searches >= 1
    /\ \A i \in Calls : invocations[i].examples = examples
    /\ \A i \in Calls : \A j \in Calls : invocations[i].examples = invocations[j].examples

C16_Witness ==
    /\ calls = 1
    /\ searches = 1
    /\ Len(invocations) = 3
    /\ examples # <<>>
    /\ invocations[3].examples = invocations[1].examples

(***************************************************************************)
(* C17: an attempt that returns neither parsed output nor raw assistant    *)
(* output leaves the transcript unchanged, is consumed, and the next       *)
(* attempt, if any remains, is invoked with the same corrections.          *)
(***************************************************************************)
C17_NoOutputSkips ==
    \A i \in Calls :
        NoOutput(i) =>
            /\ CorrectionsAfter(i) = invocations[i].corrections
            /\ (i = Len(invocations) /\ invocations[i].step < self_reflection_steps) =>
                  pc = "loop" /\ current_step = invocations[i].step + 1
            /\ (i < Len(invocations)) => invocations[i + 1].step = invocations[i].step + 1

(***************************************************************************)
(* C18: a failed attempt with raw assistant output appends the cleaned     *)
(* assistant message and then exactly one correction message, carrying     *)
(* the field-level errors (location, message, offending input) when a      *)
(* validation error was returned and only the generic instruction          *)
(* otherwise; a successful attempt appends nothing.                        *)
(***************************************************************************)
FailedWithRaw(i) ==
    /\ Returned(i)
    /\ invocations[i].result[1].parsed = None
    /\ invocations[i].result[1].raw # None

Succeeded(i) == Returned(i) /\ invocations[i].result[1].parsed # None

C18_CorrectionShape ==
    \A i \in Calls :
        /\ FailedWithRaw(i) =>
              LET before == invocations[i].corrections
                  after == CorrectionsAfter(i)
                  raw == invocations[i].result[1].raw[1]
                  perr == invocations[i].result[1].parsing_error
                  answer == after[Len(before) + 1]
                  fix == after[Len(before) + 2]
              IN /\ Len(after) = Len(before) + 2
                 /\ SubSeq(after, 1, Len(before)) = before
                 /\ answer.type = "ai"
                 /\ answer.content = raw.content
                 /\ answer.tool_calls = raw.tool_calls
                 /\ fix.type = "human"
                 /\ fix.content[1] = FormatMsg
                 /\ IF perr = None
                    THEN fix.errors = <<>> /\ Len(fix.content) = 1
                    ELSE /\ Len(fix.errors) = Len(perr[1])
                         /\ Len(perr[1]) >= 1
                         /\ \A e \in 1..Len(perr[1]) :
                               /\ fix.errors[e].location = perr[1][e].loc
                               /\ fix.errors[e].message = perr[1][e].msg
                               /\ fix.errors[e].invalid_input = perr[1][e].input
        /\ Succeeded(i) => CorrectionsAfter(i) = invocations[i].corrections

C18_Witness ==
    /\ Len(invocations) = 3
    /\ FailedWithRaw(1)
    /\ invocations[1].result[1].parsing_error # None
    /\ FailedWithRaw(2)
    /\ invocations[2].result[1].parsing_error = None
    /\ Succeeded(3)
    /\ Len(corrections) = 4

(***************************************************************************)
(* C19: the correction transcript is private to one parse call: each call  *)
(* starts with an empty transcript, and no invocation made for one event   *)
(* carries a correction produced while parsing another event, for any      *)
(* sequence or interleaving of parse calls on the same Parser.             *)
(***************************************************************************)
\* invocations of the same call that were answered with a correction
CorrectedBefore(inv) ==
    {other \in frame_log :
        /\ other.event = inv.event
        /\ other.step < inv.step
        /\ \E later \in frame_log :
              /\ later.event = inv.event
              /\ later.step = other.step + 1
              /\ Len(later.corrections) = Len(other.corrections) + 2}

C19_TranscriptPrivate ==
    \A inv \in frame_log :
        /\ (inv.step = 0) => inv.corrections = <<>>
        /\ \A k \in 1..Len(inv.corrections) :
              inv.corrections[k].type = "ai" => inv.corrections[k].id = inv.event
        /\ Len(inv.corrections) = 2 * Cardinality(CorrectedBefore(inv))

C19_Witness ==
    /\ \E f \in Frames : \E g \in Frames :
          /\ f # g
          /\ frames[f].pc = "loop"
          /\ frames[g].pc = "loop"
          /\ frames[f].corrections # <<>>
          /\ frames[g].corrections # <<>>
    /\ \E inv \in frame_log : \E other \in frame_log :
          /\ inv.event = 1
          /\ other.event = 2
          /\ inv.corrections # <<>>
          /\ other.corrections # <<>>

(***************************************************************************)
(* C20: the schema used by a parse call is the one compiled from the       *)
(* current ontology snapshot: after the ontology changes, no later parse   *)
(* validates LLM output against a schema compiled from the earlier one.    *)
(***************************************************************************)
C20_SchemaFollowsOntology == (pc = "loop") => schema = Some(build_dynamic_model(ontology))

(***************************************************************************)
(* C21: when the similarity search returns zero results, parse proceeds    *)
(* with an empty demonstration list and still runs the attempt loop; the   *)
(* empty result is never turned into an error or a Failure by itself.      *)
(***************************************************************************)
\* _get_examples returns one message group per similar event
ZeroResults == calls >= 1 /\ examples = <<>>

C21_ZeroResultsProceed ==
    ZeroResults =>
        /\ pc \in {"loop", "done", "raised"}
        /\ \A i \in Calls : invocations[i].examples = <<>>
        /\ Terminated => invocations # <<>>
        /\ IsFailure =>
              /\ Len(invocations) = self_reflection_steps + 1
              /\ report[1].error = Some(NoValidOutput)
        /\ (pc = "loop" /\ current_step = 0) => ENABLED AttemptParsed

C21_Witness == ZeroResults /\ IsSuccess /\ Len(invocations) = 2

(***************************************************************************)
(* C22: when several nodes carry the same id, assembly keeps exactly one   *)
(* node per distinct id, the one emitted last, and every relationship      *)
(* that names that id resolves to this kept node.                          *)
(***************************************************************************)
\* the position of the last node of the response that carries the id
LastEmitted(g, id) ==
    CHOOSE i \in 1..Len(g.nodes) :
        g.nodes[i].id = id /\ \A h \in 1..Len(g.nodes) : g.nodes[h].id = id => h <= i

HasUri(n) ==
    n.properties # None /\ \E j \in 1..Len(n.properties[1]) : n.properties[1][j].type = "uri"

\* the object of the assembled graph that carries the id
Kept(out, id) == {o \in Range(out.nodes) : out.heap[o].id = id}

C22_LastWriteWins ==
    (gpc = "built") =>
        LET g == eg[1]
            out == output_graph[1]
        IN /\ \A k \in 1..Len(out.nodes) : \A l \in 1..Len(out.nodes) :
                 out.heap[out.nodes[k]].id = out.heap[out.nodes[l]].id => k = l
           /\ \A id \in NodeIds(g) :
                 /\ Cardinality(Kept(out, id)) = 1
                 /\ \A o \in Kept(out, id) :
                       /\ out.heap[o].type = g.nodes[LastEmitted(g, id)].type
                       /\ ("uri" \in DOMAIN out.heap[o].properties) <=> HasUri(g.nodes[LastEmitted(g, id)])
           /\ Len(out.nodes) = Cardinality(NodeIds(g))
           /\ \A i \in 1..Len(g.relationships) :
                 /\ Kept(out, g.relationships[i].source_id) = {out.relationships[i].source}
                 /\ Kept(out, g.relationships[i].target_id) = {out.relationships[i].target}

C22_Witness ==
    /\ gpc = "built"
    /\ Len(eg[1].nodes) = 2
    /\ eg[1].nodes[1].id = "a"
    /\ eg[1].nodes[2].id = "a"
    /\ eg[1].nodes[1].type = "Event"
    /\ eg[1].nodes[2].type = "User"
    /\ Len(eg[1].relationships) = 1
    /\ Len(output_graph[1].nodes) = 1
    /\ output_graph[1].heap[output_graph[1].relationships[1].source].type = "User"

(***************************************************************************)
(* C23: every report returned by parse is in exactly one terminal outcome, *)
(* Success with a graph and no error or Failure with an error and no       *)
(* graph; the end time is set exactly when the outcome is set.             *)
(***************************************************************************)
C23_ExactlyOneOutcome ==
    report # None =>
        LET r == report[1]
        IN /\ ~(r.graph # None /\ r.error # None)
           /\ (r.end_dt # None) <=> (r.graph # None \/ r.error # None)
           /\ (pc = "done") => (r.graph # None \/ r.error # None)
           /\ (pc = "loop") => (r.graph = None /\ r.error = None)

C23_Witness ==
    /\ IsSuccess
    /\ report[1].error = None
    /\ report[1].end_dt # None
    /\ Len(invocations) = 3

(***************************************************************************)
(* C24: provided every backend invocation returns, a parse call ends in a  *)
(* terminal state: Success as soon as one attempt is parsed and            *)
(* assembled, Failed once all self_reflection_steps + 1 attempts are       *)
(* consumed without success; no attempt is made after a terminal state.    *)
(***************************************************************************)
AllReturned == \A i \in Calls : Returned(i)

C24_TerminalOutcome ==
    (calls >= 1 /\ AllReturned) =>
        /\ (pc # "loop") => (IsSuccess \/ IsFailure)
        /\ IsSuccess =>
              /\ Succeeded(Len(invocations))
              /\ \A i \in 1..(Len(invocations) - 1) : ~Succeeded(i)
        /\ IsFailure =>
              /\ Len(invocations) = self_reflection_steps + 1
              /\ \A i \in Calls : ~Succeeded(i)
        /\ Terminated => ~ENABLED (InvokeRaises \/ AttemptNoRaw \/ AttemptNullRaw
                                    \/ AttemptCorrected \/ AttemptParsed)

(***************************************************************************)
(* C27: for every ontology and every node type of it, the allowed          *)
(* property set computed by build_dynamic_model contains 'uri', so a node  *)
(* of such a type carrying a 'uri' property is never rejected for that key.*)
(***************************************************************************)
C27_UriAlwaysAllowed ==
    /\ schema # None =>
          \A n \in ontology.nodes : <<n.type, "uri">> \in schema[1].valid_properties_per_node
    /\ (gpc = "validated") =>
          \A i \in 1..Len(eg[1].nodes) :
              (eg[1].nodes[i].type \in OntologyTypes /\ eg[1].nodes[i].properties # None) =>
                  \A j \in 1..Len(eg[1].nodes[i].properties[1]) :
                      eg[1].nodes[i].properties[1][j].type = "uri" =>
                          ~ErrorAt(<<"nodes", ToString(i - 1), "properties", ToString(j - 1), "type">>)

C27_Witness ==
    /\ Accepted
    /\ ontology = HostOntology
    /\ Len(eg[1].nodes) = 2
    /\ eg[1].nodes[1].type = "Host"
    /\ HasUri(eg[1].nodes[1])
    /\ eg[1].nodes[2].type = "User"
    /\ HasUri(eg[1].nodes[2])

(***************************************************************************)
(* C28: in the earlier Parser a relationship that references a node id     *)
(* absent from the node list makes parse hard-fail: a Failure report       *)
(* carrying the lookup error, no retry, and exactly one chain invocation   *)
(* per parse call whatever the value of self_reflection_steps.             *)
(***************************************************************************)
ParsedDangling(i) ==
    /\ Returned(i)
    /\ invocations[i].result[1].parsed # None
    /\ ~EndpointsPresent(invocations[i].result[1].parsed[1])

C28_OldParserHardFails ==
    /\ Len(invocations) <= 1
    /\ Terminated => Len(invocations) = 1
    /\ corrections = <<>>
    /\ \A i \in Calls :
          ParsedDangling(i) =>
              /\ IsFailure
              /\ report[1].error[1].message = "KeyError"
              /\ report[1].error[1].errors[1].msg \notin NodeIds(invocations[i].result[1].parsed[1])
              /\ report[1].end_dt # None

C28_Witness ==
    /\ self_reflection_steps = MaxSteps
    /\ pc = "done"
    /\ ParsedDangling(1)
    /\ Len(invocations[1].result[1].parsed[1].nodes) = 2
    /\ IsFailure

(***************************************************************************)
(* C29: each store module's clear() deletes only the nodes that belong to  *)
(* that module: Dataset.clear leaves the ontology classes, the graph       *)
(* configuration and the Experiment nodes unchanged, and likewise          *)
(* Ontology.clear and Driver.clear leave the other modules' nodes.         *)
(***************************************************************************)
Owner(n) ==
    IF "Experiment" \in n.labels THEN "driver"
    ELSE IF \/ "_GraphConfig" \in n.labels
            \/ StartsWith(n.uri, TIME_ONTOLOGY_URL)
            \/ StartsWith(n.uri, LOG_ONTOLOGY_URL)
         THEN "ontology"
         ELSE "dataset"

OthersKept(module) ==
    /\ {n \in db.nodes : Owner(n) # module} \subseteq db'.nodes
    /\ {r \in db.relationships : Owner(r.source) # module /\ Owner(r.target) # module}
           \subseteq db'.relationships

C29_ClearOnlyOwnNodes ==
    [][/\ DatasetClear => OthersKept("dataset")
       /\ OntologyClear => OthersKept("ontology")
       /\ DriverClear => OthersKept("driver")]_vars

C29_OntologyAndDriverClearOnlyOwn ==
    [][/\ OntologyClear => OthersKept("ontology")
       /\ DriverClear => OthersKept("driver")]_vars

(***************************************************************************)
(* C26: fetch_ip_address_info never raises to its caller: every failure of *)
(* the HTTP lookup (no response, HTTP error status, rate limit, error      *)
(* payload) is returned as the IPAddressError variant, and a successful    *)
(* lookup is returned as IPAddressInfo.                                    *)
(***************************************************************************)
LookupDone == lookup.pc = "done"

LookupSucceeded ==
    /\ lookup.http[1].exc = None
    /\ lookup.http[1].status < 400
    /\ lookup.http[1].json
    /\ lookup.http[1].error # Some(TRUE)
    /\ lookup.http[1].info

LookupFailed ==
    \/ lookup.http[1].exc # None
    \/ lookup.http[1].status >= 400
    \/ lookup.http[1].json /\ lookup.http[1].error = Some(TRUE)

C26_LookupNeverRaises ==
    LookupDone =>
        /\ lookup.result[1].raised = None
        /\ LookupFailed => lookup.result[1].variant = "IPAddressError"
        /\ LookupSucceeded => lookup.result[1].variant = "IPAddressInfo"

\* what does hold: a response with an HTTP error status is returned as
\* IPAddressError, with the rate-limit message for 429
C26_ErrorStatusReturned ==
    (LookupDone /\ lookup.http[1].exc = None /\ lookup.http[1].status >= 400) =>
        /\ lookup.result[1].raised = None
        /\ lookup.result[1].variant = "IPAddressError"
        /\ lookup.result[1].error = RateLimitMsg <=> lookup.http[1].status = TOO_MANY_REQUESTS

\* no lookup at all returns IPAddressInfo
C26_NoInfoReturned == LookupDone => lookup.result[1].variant # "IPAddressInfo"

(***************************************************************************)
(* C25: in the batch driver every event of the batch yields exactly one    *)
(* report appended to the report list, in event order, and the driver goes *)
(* on to the next event whatever happened to the current one: no event is  *)
(* dropped without a report and no event's failure stops the batch.        *)
(***************************************************************************)
BatchStopped == batch.pc \in {"raised", "finished"} \/ (batch.pc = "parsing" /\ pc = "raised")

ReportsInOrder == \A i \in 1..Len(batch.reports) : batch.reports[i].event = i

C25_EveryEventReported ==
    /\ ReportsInOrder
    /\ BatchStopped => Len(batch.reports) = MaxEvents

\* the same for a batch whose items unpack into event, context and graph
C25_UnpackableBatchReported ==
    (batch.unpackable /\ BatchStopped) => Len(batch.reports) = MaxEvents

\* what does hold: one report per event that parse returned from, in order
C25_ReturnedEventsReported ==
    /\ ReportsInOrder
    /\ Len(batch.reports) <= batch.event
    /\ batch.pc \in {"next", "finished"} => Len(batch.reports) = batch.event

(***************************************************************************)
(* C30: in the batch driver a graph is passed to add_event_graph if and    *)
(* only if its report is a Success: nothing is passed for a Failure, and   *)
(* each Success graph is passed exactly once, before the next event is     *)
(* parsed, so that it is in the store for the later similarity searches.   *)
(***************************************************************************)
SuccessReport(r) == r.graph # None /\ r.error = None

InStore(g) ==
    \A i \in 1..Len(g.nodes) :
        \E n \in db.nodes :
            /\ n.labels = {g.heap[g.nodes[i]].type}
            /\ n.uri = Uri(LOG_RUN_URL, g.heap[g.nodes[i]].properties["uri"])

Experiments(dbv) == {n \in dbv.nodes : "Experiment" \in n.labels}

Subsequent(dbv) == {r \in dbv.relationships : r.type = "SUBSEQUENT"}

LatestOf(dbv) ==
    CHOOSE n \in Experiments(dbv) : \A m \in Experiments(dbv) : m.experiment <= n.experiment

HashesDiffer ==
    /\ Experiments(db) # {}
    /\ LatestOf(db).details # config'

InitializeStep ==
    IF HashesDiffer
    THEN /\ exception' = Some("ValueError")
         /\ Experiments(db') = Experiments(db)
         /\ db' = db
    ELSE /\ exception' = None
         /\ Cardinality(Experiments(db') \ Experiments(db)) = 1
         /\ Experiments(db) \subseteq Experiments(db')
         /\ LatestOf(db').details = config'
         /\ LatestOf(db') \notin Experiments(db)
         /\ Subsequent(db') \ Subsequent(db) =
                IF Experiments(db) = {} THEN {}
                ELSE {DbRel(LatestOf(db'), "SUBSEQUENT", LatestOf(db))}

\* every experiment but the oldest points to the one initialized just before it
SingleChain ==
    \A n \in Experiments(db) :
        LET out == {r \in Subsequent(db) : r.source = n}
            older == {m \in Experiments(db) : m.experiment < n.experiment}
        IN IF older = {} THEN out = {}
           ELSE /\ Cardinality(out) = 1
                /\ \A r \in out :
                      /\ r.target \in older
                      /\ \A m \in older : m.experiment <= r.target.experiment

OntologyHashDiffers ==
    Experiments(db) # {} /\ LatestOf(db).details.ontology_hash # config'.ontology_hash

ExamplesHashDiffers ==
    Experiments(db) # {} /\ LatestOf(db).details.examples_hash # config'.examples_hash

C32_HashChecks ==
    [][EventsStoreInitialize =>
          /\ exception' = Some(OntologyChanged) <=> OntologyHashDiffers
          /\ exception' = Some(ExamplesChanged) <=> (ExamplesHashDiffers /\ ~OntologyHashDiffers)
          /\ (~OntologyHashDiffers /\ ~ExamplesHashDiffers) => exception' = None]_vars

\* what does hold: with a latest experiment in the database every call
\* raises KeyError, whatever the hashes
C32_AlwaysKeyError ==
    [][(EventsStoreInitialize /\ Experiments(db) # {}) =>
          exception' = Some("KeyError: ontology_hash")]_vars

(***************************************************************************)
(* Vocabulary of the template parsers' properties                          *)
(***************************************************************************)
\* the new log and the similar logs of the call, as they were found
AllLogs(t) == <<t.log>> \o [i \in DOMAIN t.similar |-> t.before[t.similar[i]].log]

MatchesAll(template, logs) == \A i \in DOMAIN logs : re_match(template, logs[i]) = "match"

LeftLoop == tp.path = "generation" /\ tp.pc \in {"returned", "raised"}

GenerationReturned == tp.path = "generation" /\ tp.pc = "returned"

\* the template of the document added last
Saved(t) == t.store[Len(t.store)].template

(***************************************************************************)
(* C33: in rov_parser Parser.compute_template a template that fails to     *)
(* match the new log or a similar log makes the chain be invoked again,    *)
(* until a template matches all the logs or self_reflection_steps          *)
(* invocations were made: the loop is left early only with a template that *)
(* matches all the logs.                                                   *)
(***************************************************************************)
C33_RetriesUntilMatch ==
    LeftLoop =>
        \/ tp.invoked = self_reflection_steps
        \/ MatchesAll(tp.generated, AllLogs(tp))

\* what does hold: a call never invokes the chain twice
C33_InvokedOnce == tp.invoked <= 1

(***************************************************************************)
(* C34: in compute_template of src/parser the template saved for the new   *)
(* log and written to the similar logs matches the new log and every       *)
(* similar log, also when all SELF_REFLECTION_STEPS attempts were used.    *)
(***************************************************************************)
C34_SavedTemplateMatches ==
    GenerationReturned => MatchesAll(Saved(tp), AllLogs(tp))

(***************************************************************************)
(* C35: when at least MEMORY_MATCH_MIN_QUALITY very similar logs with a    *)
(* template are found and the log matches all their templates, the log is  *)
(* stored with the template of the first of them, the chain is not invoked *)
(* and no document is updated; in every other case the generation path is  *)
(* taken.                                                                  *)
(***************************************************************************)
CallBegins == tp'.position = tp.position + 1

MemoryMatch(t) ==
    /\ Len(t.very_similar) >= t.memory_match_min_quality
    /\ \A i \in DOMAIN t.very_similar : re_match(t.before[t.very_similar[i]].template, t.log) = "match"

C35_MemoryPath ==
    [][CallBegins =>
          IF MemoryMatch(tp')
          THEN /\ tp'.pc = "returned"
               /\ tp'.path = "memory"
               /\ tp'.store = Append(tp.store, Document(tp'.log, tp.store[tp'.very_similar[1]].template))
               /\ tp'.invoked = 0
               /\ tp'.updated = {}
          ELSE tp'.path = "generation"]_vars

\* the memory path of src/parser is taken in some call
C35_MemoryPathTaken == tp.path = "memory" /\ tp.pc = "returned"

(***************************************************************************)
(* C36: check_template_match never raises, whatever template value         *)
(* compute_template passes to it, also the value held after a mismatch     *)
(* with an earlier log of the same pass.                                   *)
(***************************************************************************)
C36_NeverRaises == tp.raised # Some("TypeError")

(***************************************************************************)
(* C37: after compute_template took the generation path and returned, the  *)
(* template of every similar log is the template saved for the new log,    *)
(* and update_document was called exactly for the similar logs whose       *)
(* template differed before the call.                                      *)
(***************************************************************************)
C37_SimilarLogsUpdated ==
    GenerationReturned =>
        /\ Len(tp.store) = Len(tp.before) + 1
        /\ tp.store[Len(tp.store)].log = tp.log
        /\ \A i \in Range(tp.similar) : tp.store[i].template = Saved(tp)
        /\ tp.updated = {i \in Range(tp.similar) : tp.before[i].template # Saved(tp)}
        /\ \A i \in DOMAIN tp.before : i \notin Range(tp.similar) => tp.store[i] = tp.before[i]

C37_Witness ==
    /\ GenerationReturned
    /\ tp.updated # {}
    /\ tp.updated # Range(tp.similar)

(***************************************************************************)
(* C38: the history of the rov_parser Parser is one object for all the     *)
(* compute_template calls and is never cleared: it only grows, and every   *)
(* invocation of the chain is given the whole history, so a correction     *)
(* added for one log is part of the conversation of every invocation made  *)
(* for later logs.                                                         *)
(***************************************************************************)
C38_HistoryOnlyGrows ==
    [][/\ IsPrefix(tp.history, tp'.history)
       /\ RovInvoke => tp'.messages = tp.history]_vars

C38_Witness ==
    /\ tp.position = 2
    /\ tp.invoked = 1
    /\ \E i \in 1..tp.history_len : tp.messages[i].kind = "correction"

====
